---- MODULE Spec2Model ----
(***************************************************************************)
(* A model of Ms::System (src/src/engraving/libmscore/system.cpp): the     *)
(* per-system layout records, the staff stacker (layout2 /                 *)
(* restoreLayout2), bracket layout and instrument-name placement.          *)
(*                                                                         *)
(* Lengths are integers and one spatium is `spatium` units.  The code     *)
(* halves a length in two places, the x and the y position of an           *)
(* instrument name: these two are kept as exact fractions num / den with   *)
(* den 1 or 2.  Staff indices are 0-based as in the code; At/SetAt read    *)
(* and write the 1-based TLA+ sequences that hold the staff arrays.        *)
(***************************************************************************)
EXTENDS Integers, Sequences, FiniteSets, TLC

VARIABLES
    parts,          \* score()->parts(): nstaves of each part, in score order
    staffs,         \* score()->staff(i): show, lines, height, userDist, staffMag
    style,          \* the style values and score flags the system reads
    scoreBrackets,  \* Staff::brackets() of every staff: the bracket items
    otherMl,        \* System::ml of another System of the same score
    elements,       \* the other elements of the score: kind, parent, divider type
    spannerSegments,    \* System::_spannerSegments (indices into elements)
    systemDividerLeft,  \* System::_systemDividerLeft (0 for none)
    systemDividerRight, \* System::_systemDividerRight (0 for none)
    measures,       \* the MeasureBase objects of the score: kind, spacers, box, parent
    ml,             \* System::ml, the ordered measure sequence (indices into measures)
    staves,         \* System::_staves, the SysStaff records
    brackets,       \* System::_brackets
    inames,         \* the InstrumentName elements, by id
    systemHeight,   \* System::_systemHeight
    sbbox,          \* the system's own bounding box (width(), height())
    leftMargin,     \* System::_leftMargin
    lastOp,         \* the operation that produced this state, with its inputs
    passes          \* the number of layout2 passes run so far

vars == <<parts, staffs, style, scoreBrackets, otherMl, elements, spannerSegments,
          systemDividerLeft, systemDividerRight, measures, ml, staves, brackets,
          inames, systemHeight, sbbox, leftMargin, lastOp, passes>>

\* what System::add and System::remove alone change
elementVars == <<elements, spannerSegments, systemDividerLeft, systemDividerRight>>

\* what the layout of this system reads and leaves alone
scoreVars == <<parts, staffs, style, scoreBrackets, otherMl, elementVars>>

-----------------------------------------------------------------------------
(* Program constants *)

VOICES == 4
BARLINE_SPAN_1LINESTAFF_FROM == -4
BARLINE_SPAN_1LINESTAFF_TO == 4
spatium == 2

(* Bounds of the model *)

MaxPassesWide == 1
MaxPasses == 2
MaxNames == 2
MaxMl == 3
MaxStaves == 4
MaxSegments == 2

-----------------------------------------------------------------------------
(* Small helpers *)

\* the function f over 1 .. Len(f) as a sequence, built entry by entry
RECURSIVE seqUpTo(_, _)
seqUpTo(f, n) == IF n = 0 THEN <<>> ELSE Append(seqUpTo(f, n - 1), f[n])

asSeq(f) == seqUpTo(f, Len(f))

qMax(a, b) == IF a >= b THEN a ELSE b

At(seq, i) == seq[i + 1]

SetAt(seq, i, v) == [seq EXCEPT ![i + 1] = v]

Idx(seq) == 0 .. (Len(seq) - 1)

RECURSIVE SumTo(_, _)
SumTo(seq, n) == IF n = 0 THEN 0 ELSE seq[n] + SumTo(seq, n - 1)

RectF == [x |-> 0, y |-> 0, w |-> 0, h |-> 0]

\* the qreal k * .5 as a fraction in lowest terms
halves(k) ==
    IF k % 2 = 0 THEN [num |-> k \div 2, den |-> 1] ELSE [num |-> k, den |-> 2]

top(r) == r.y

bottom(r) == r.y + r.h

-----------------------------------------------------------------------------
(* The score as the system reads it *)

nstaves == Len(staffs)

\* Staff::part(): the index (1-based, into parts) of the part staff i belongs to
partOf(i) == CHOOSE p \in 1 .. Len(parts) : SumTo(parts, p - 1) <= i /\ i < SumTo(parts, p)

NoSpacer == [type |-> "NONE", gap |-> 0]

\* Measure::vspacerDown(staffIdx) / vspacerUp(staffIdx)
vspacerDown(m, si) == At(measures[m].down, si)

vspacerUp(m, si) == At(measures[m].up, si)

isMeasure(m) == measures[m].kind = "MEASURE"

isHBox(m) == measures[m].kind = "HBOX"

isTBox(m) == measures[m].kind = "TBOX"

isVBox(m) == measures[m].kind = "VBOX"

\* System::vbox()
vbox == IF ml # <<>> /\ (isVBox(ml[1]) \/ isTBox(ml[1])) THEN ml[1] ELSE 0

\* System::firstMeasure(): 0 stands for the null pointer
firstMeasure ==
    IF \E k \in 1 .. Len(ml) : isMeasure(ml[k])
    THEN ml[CHOOSE k \in 1 .. Len(ml) : isMeasure(ml[k]) /\ \A j \in 1 .. (k - 1) : ~isMeasure(ml[j])]
    ELSE 0

-----------------------------------------------------------------------------
(* SysStaff *)

\* new SysStaff
NewSysStaff(id) ==
    [id |-> id, bbox |-> RectF, yOff |-> 0, yPos |-> 0, height |-> 0,
     continuousDist |-> -1, show |-> TRUE, instrumentNames |-> <<>>]

\* SysStaff::saveLayout
saveLayout(ss) == [ss EXCEPT !.height = ss.bbox.h, !.yPos = ss.bbox.y]

\* SysStaff::restoreLayout
restoreLayout(ss) == [ss EXCEPT !.bbox.y = ss.yPos, !.bbox.h = ss.height]

\* SysStaff::y()
sysStaffY(ss) == ss.bbox.y + ss.yOff

\* IsVisible with a fault: the show flag of the score staff is not looked at
IsVisibleInRecord(sts, i) == At(sts, i).show

\* the staves layout2 stacks: both the score staff and the staff record are shown
IsVisible(sts, i) == At(staffs, i).show /\ At(sts, i).show

RECURSIVE visibleFrom(_, _)
visibleFrom(sts, i) ==
    IF i >= Len(sts) THEN <<>>
    ELSE (IF IsVisible(sts, i) THEN <<i>> ELSE <<>>) \o visibleFrom(sts, i + 1)

visibleStaves(sts) == visibleFrom(sts, 0)

\* System::nextVisibleStaff
RECURSIVE nextVisibleFrom(_, _)
nextVisibleFrom(sts, i) ==
    IF i >= Len(sts) \/ IsVisible(sts, i) THEN i ELSE nextVisibleFrom(sts, i + 1)

nextVisibleStaff(staffIdx) == nextVisibleFrom(staves, staffIdx + 1)

-----------------------------------------------------------------------------
(* Brackets *)

\* Bracket::width(): a function of the bracket type and the style alone
BracketTypeWidth(t) == IF t = "BRACE" THEN 4 ELSE 2

\* Bracket accessors that read through the bracket's BracketItem
column(b) == b.bi.column

bracketType(b) == b.bi.type

span(b) == b.bi.span

width(b) == BracketTypeWidth(b.bi.type)

\* System::staff(idx)->show(), FALSE standing for "idx is not a staff record"
sysShow(sts, i) == i >= 0 /\ i < Len(sts) /\ At(sts, i).show

\* first index in [a, b] whose staff record is shown, b + 1 when there is none
RECURSIVE trimUp(_, _, _)
trimUp(sts, a, b) == IF a <= b /\ ~At(sts, a).show THEN trimUp(sts, a + 1, b) ELSE a

\* last index in [a, b] whose staff record is shown, a - 1 when there is none
RECURSIVE trimDown(_, _, _)
trimDown(sts, a, b) == IF b >= a /\ ~At(sts, b).show THEN trimDown(sts, a, b - 1) ELSE b

\* System::layoutBracketsVertical, for one bracket
bracketVertical(sts, b) ==
    LET staffIdx1 == trimUp(sts, b.firstStaff, b.lastStaff)
        staffIdx2 == trimDown(sts, staffIdx1, b.lastStaff)
        notHidden == IF style.alwaysShowBracketsWhenEmptyStavesAreHidden
                     THEN staffIdx1 <= staffIdx2
                     ELSE (staffIdx1 < staffIdx2) \/ (span(b) = 1 /\ staffIdx1 = staffIdx2)
        sy == IF notHidden THEN top(At(sts, staffIdx1).bbox) ELSE 0
        ey == IF notHidden THEN bottom(At(sts, staffIdx2).bbox) ELSE 0
    IN [b EXCEPT !.y = sy, !.h = ey - sy]

\* System::layoutBracketsVertical
layoutBracketsVertical(sts, brs) == asSeq([k \in 1 .. Len(brs) |-> bracketVertical(sts, brs[k])])

\* a Bracket as Factory::createBracket and lines 678-681 leave it
newBracket(id, bi, track, measure) ==
    [id |-> id, track |-> track, measure |-> measure, bi |-> bi,
     firstStaff |-> 0, lastStaff |-> 0, x |-> 0, y |-> 0, h |-> 0]

\* the Bracket objects that are alive during a bracket pass
bracketIds(brs) == {brs[k].id : k \in 1 .. Len(brs)}

\* a fresh object: the smallest id that names no live Bracket
freshBracketId(live) == CHOOSE id \in 1 .. (Cardinality(live) + 1) : id \notin live

\* Staff::brackets() of score staff idx
bracketItems(idx) == At(scoreBrackets, idx)

\* System::getBracketsColumnsCount
getBracketsColumnsCount(sts) ==
    LET cols == UNION {{bracketItems(idx)[k].column + 1 : k \in 1 .. Len(bracketItems(idx))} :
                          idx \in Idx(sts)}
    IN IF cols = {} THEN 0 ELSE CHOOSE c \in cols : \A d \in cols : d <= c

\* createBracket lines 661-663 without the comparison with the declared span
bracketShownNoDeclared(bi, sp) ==
    sp > 1 \/ (sp = 1 /\ style.alwaysShowBracketsWhenEmptyStavesAreHidden)

\* createBracket lines 661-663, with the test left out
bracketShownAlways(bi, sp) == TRUE

\* createBracket lines 661-663: whether the bracket of item bi, trimmed to sp
\* staves, is shown
bracketShown(bi, sp) ==
    \/ sp > 1
    \/ bi.span = sp
    \/ (sp = 1 /\ style.alwaysShowBracketsWhenEmptyStavesAreHidden)

\* createBracket lines 669-675, finding nothing to reuse
takeBracketNone(bl, track, col, type, measure) == 0

\* createBracket lines 669-675: the position in bl (1-based, 0 for none) of the
\* first bracket of that track, column, type and measure
takeBracket(bl, track, col, type, measure) ==
    LET hits == {k \in 1 .. Len(bl) :
                    /\ bl[k].track = track
                    /\ column(bl[k]) = col
                    /\ bracketType(bl[k]) = type
                    /\ bl[k].measure = measure}
    IN IF hits = {} THEN 0 ELSE CHOOSE k \in hits : \A j \in hits : k <= j

\* System::createBracket.  st holds _brackets, the list bl of the brackets of the
\* previous pass, the ids reused so far and the widths per column (1-based);
\* add(b) appends b to _brackets (System::add, case BRACKET)
createBracket(sts, st, bi, col, staffIdx, measure) ==
    LET n == Len(sts)
        last0 == IF staffIdx + bi.span - 1 >= n THEN n - 1 ELSE staffIdx + bi.span - 1
        firstStaff == trimUp(sts, staffIdx, last0)
        lastStaff == trimDown(sts, firstStaff, last0)
        sp == lastStaff - firstStaff + 1
        track == staffIdx * VOICES
        k == takeBracket(st.bl, track, col, bi.type, measure)
        b == IF k # 0 THEN st.bl[k]
             ELSE newBracket(freshBracketId(bracketIds(st.brackets) \cup bracketIds(st.bl)),
                             bi, track, measure)
    IN IF bracketShown(bi, sp)
       THEN [brackets |-> Append(st.brackets,
                                 [b EXCEPT !.firstStaff = firstStaff, !.lastStaff = lastStaff]),
             bl |-> IF k # 0 THEN SubSeq(st.bl, 1, k - 1) \o SubSeq(st.bl, k + 1, Len(st.bl))
                    ELSE st.bl,
             reused |-> IF k # 0 THEN st.reused \cup {b.id} ELSE st.reused,
             bracketWidth |-> [st.bracketWidth EXCEPT ![col + 1] = qMax(@, width(b))]]
       ELSE st

\* layoutBrackets lines 309-319: the items of score staff staffIdx the loops
\* visit, column by column and in list order within a column
RECURSIVE staffBracketItems(_, _, _)
staffBracketItems(staffIdx, i, columns) ==
    IF i >= columns THEN <<>>
    ELSE SelectSeq(bracketItems(staffIdx),
                   LAMBDA bi : bi.column = i /\ bi.type # "NO_BRACKET")
         \o staffBracketItems(staffIdx, i + 1, columns)

\* layoutBrackets lines 309-319 for one staff
RECURSIVE createBrackets(_, _, _, _, _)
createBrackets(sts, st, items, staffIdx, measure) ==
    IF items = <<>> THEN st
    ELSE createBrackets(sts,
                        createBracket(sts, st, Head(items), Head(items).column, staffIdx, measure),
                        Tail(items), staffIdx, measure)

\* layoutBrackets lines 307-320
RECURSIVE createFrom(_, _, _, _, _)
createFrom(sts, st, staffIdx, columns, measure) ==
    IF staffIdx >= Len(sts) THEN st
    ELSE createFrom(sts,
                    createBrackets(sts, st, staffBracketItems(staffIdx, 0, columns),
                                   staffIdx, measure),
                    staffIdx + 1, columns, measure)

\* System::layoutBrackets: the new _brackets, the ids reused and the returned
\* total width; the brackets left in bl are deleted
layoutBrackets(sts, brs) ==
    LET columns == getBracketsColumnsCount(sts)
        st == createFrom(sts,
                         [brackets |-> <<>>, bl |-> brs, reused |-> {},
                          bracketWidth |-> asSeq([i \in 1 .. columns |-> 0])],
                         0, columns, firstMeasure)
    IN [brackets |-> st.brackets,
        reused |-> st.reused,
        total |-> IF st.brackets # <<>>
                  THEN SumTo([i \in 1 .. columns |-> st.bracketWidth[i] + style.bracketDistance],
                             columns)
                  ELSE 0]

\* setBracketsXPosition lines 709-712: whether b2 pushes b1 to the left
pushes(b1, b2) ==
    LET b1FirstStaffInB2 == b1.firstStaff >= b2.firstStaff /\ b1.firstStaff <= b2.lastStaff
        b1LastStaffInB2 == b1.lastStaff >= b2.firstStaff /\ b1.lastStaff <= b2.lastStaff
    IN column(b1) > column(b2) /\ (b1FirstStaffInB2 \/ b1LastStaffInB2)

\* setBracketsXPosition lines 707-715
xOffset(brs, b1) ==
    SumTo([k \in 1 .. Len(brs) |->
              IF pushes(b1, brs[k]) THEN width(brs[k]) + style.bracketDistance ELSE 0],
          Len(brs))

\* System::setBracketsXPosition
setBracketsXPosition(brs, xPosition) ==
    asSeq([k \in 1 .. Len(brs) |->
        [brs[k] EXCEPT !.x = xPosition - xOffset(brs, brs[k]) - width(brs[k])]])

-----------------------------------------------------------------------------
(* Instrument names *)

\* System::firstSysStaffOfPart, for the part at position p of score()->parts()
firstSysStaffOfPart(p) == SumTo(parts, p - 1)

\* System::firstVisibleSysStaffOfPart
firstVisibleSysStaffOfPart(sts, p) ==
    LET firstIdx == firstSysStaffOfPart(p)
        idx == trimUp(sts, firstIdx, firstIdx + parts[p] - 1)
    IN IF idx < firstIdx + parts[p] THEN idx ELSE -1

\* layoutInstrumentNames lines 524-533 with the moved names put in front of
\* the names of the visible staff
moveNamesInFront(sts, nm, staffIdx, visible) ==
    LET s == At(sts, staffIdx)
        vs == At(sts, visible)
        moved == {s.instrumentNames[k] : k \in 1 .. Len(s.instrumentNames)}
    IN [staves |-> asSeq([i \in 1 .. Len(sts) |->
                       IF i = visible + 1
                       THEN [vs EXCEPT !.instrumentNames = s.instrumentNames \o vs.instrumentNames]
                       ELSE IF i = staffIdx + 1 THEN [s EXCEPT !.instrumentNames = <<>>]
                       ELSE sts[i]]),
        inames |-> asSeq([t \in DOMAIN nm |->
                       IF t \in moved
                       THEN [nm[t] EXCEPT !.track = visible * VOICES, !.sysStaff = vs.id]
                       ELSE nm[t]])]

\* layoutInstrumentNames lines 524-533: the names of a hidden top staff move
\* to the first visible staff of the part
moveNames(sts, nm, staffIdx, visible) ==
    LET s == At(sts, staffIdx)
        vs == At(sts, visible)
        moved == {s.instrumentNames[k] : k \in 1 .. Len(s.instrumentNames)}
    IN [staves |-> asSeq([i \in 1 .. Len(sts) |->
                       IF i = visible + 1
                       THEN [vs EXCEPT !.instrumentNames = vs.instrumentNames \o s.instrumentNames]
                       ELSE IF i = staffIdx + 1 THEN [s EXCEPT !.instrumentNames = <<>>]
                       ELSE sts[i]]),
        inames |-> asSeq([t \in DOMAIN nm |->
                       IF t \in moved
                       THEN [nm[t] EXCEPT !.track = visible * VOICES, !.sysStaff = vs.id]
                       ELSE nm[t]])]

\* lastShownAbove0 with a fault: the last staff record of the part is taken
\* whether it is shown or not
lastShownAnyway(sts, i, staffIdx) == IF i <= 0 THEN staffIdx ELSE i

\* layoutInstrumentNames lines 545-551: the last shown staff record at an index
\* > 0, searched downwards from i; staff(staffIdx) when there is none
RECURSIVE lastShownAbove0(_, _, _)
lastShownAbove0(sts, i, staffIdx) ==
    IF i <= 0 THEN staffIdx
    ELSE IF At(sts, i).show THEN i
    ELSE lastShownAbove0(sts, i - 1, staffIdx)

\* whether the anchor rule of a name reads a staff record that does not exist:
\* System::staff returns nullptr and the switch calls bbox() on it, which ends
\* the program
readsNoStaff(sts, pos, staffIdx) ==
    \/ pos \in {2, 3, 4} /\ staffIdx + 1 >= Len(sts)
    \/ pos \in {4, 5} /\ staffIdx + 2 >= Len(sts)

\* layoutInstrumentNames lines 541-573: the indices staff() is called with for
\* a name with anchor rule pos on staff record sIdx of the part of n staves
\* whose top staff is staffIdx
anchorReads(sts, pos, sIdx, staffIdx, n) ==
    CASE pos = 1 -> {sIdx}
      [] pos = 2 -> {sIdx, staffIdx + 1}
      [] pos = 3 -> {staffIdx + 1}
      [] pos = 4 -> {staffIdx + 1, staffIdx + 2}
      [] pos = 5 -> {staffIdx + 2}
      [] OTHER -> {sIdx, lastShownAbove0(sts, staffIdx + n - 1, staffIdx)}

\* layoutInstrumentNames lines 539-575: the y position of one name of staff
\* record s (index sIdx) of the part whose top staff is staffIdx, for a name
\* whose anchor rule reads staff records that exist; line 575 is
\* y1 + (y2 - y1) * .5 + offset().y()
nameY(sts, t, sIdx, staffIdx, n) ==
    LET s == At(sts, sIdx)
        pos == t.layoutPos
        y1 == CASE pos = 2 -> top(s.bbox)
                [] pos \in {3, 4} -> top(At(sts, staffIdx + 1).bbox)
                [] pos = 5 -> top(At(sts, staffIdx + 2).bbox)
                [] OTHER -> top(s.bbox)
        y2 == CASE pos = 1 -> bottom(s.bbox)
                [] pos \in {2, 3} -> bottom(At(sts, staffIdx + 1).bbox)
                [] pos \in {4, 5} -> bottom(At(sts, staffIdx + 2).bbox)
                [] OTHER -> bottom(At(sts, lastShownAbove0(sts, staffIdx + n - 1, staffIdx)).bbox)
    IN halves(2 * y1 + (y2 - y1) + 2 * t.offsetY)

\* System::layoutInstrumentNames, from part p on, staffIdx being its top staff;
\* crashed tells that a name in the list of the first shown record of a part
\* had an anchor rule that reads a staff record beyond the last one
RECURSIVE layoutNamesFrom(_, _, _, _)
layoutNamesFrom(p, staffIdx, sts, nm) ==
    IF p > Len(parts) THEN [staves |-> sts, inames |-> nm, crashed |-> FALSE]
    ELSE LET n == parts[p]
             visible == firstVisibleSysStaffOfPart(sts, p)
             mv == IF visible >= 0 /\ visible # staffIdx
                   THEN moveNames(sts, nm, staffIdx, visible)
                   ELSE [staves |-> sts, inames |-> nm]
             sIdx == IF visible >= 0 THEN visible ELSE staffIdx
             mine == {At(mv.staves, sIdx).instrumentNames[k] :
                         k \in 1 .. Len(At(mv.staves, sIdx).instrumentNames)}
             null == /\ visible >= 0
                     /\ \E t \in mine :
                            readsNoStaff(mv.staves, mv.inames[t].layoutPos, staffIdx)
             nm2 == asSeq([t \in DOMAIN nm |->
                       IF visible >= 0 /\ t \in mine
                       THEN [mv.inames[t] EXCEPT
                                !.y = nameY(mv.staves, mv.inames[t], sIdx, staffIdx, n)]
                       ELSE mv.inames[t]])
         IN IF null THEN [staves |-> mv.staves, inames |-> mv.inames, crashed |-> TRUE]
            ELSE layoutNamesFrom(p + 1, staffIdx + n, mv.staves, nm2)

layoutInstrumentNames(sts, nm) == layoutNamesFrom(1, 0, sts, nm)

-----------------------------------------------------------------------------
(* The staff stacker: System::layout2 *)

\* layout2 lines 777-782: the two base distances, replaced by minStaffSpread
\* when vertical spread is enabled
staffDistance ==
    IF style.enableVerticalSpread THEN style.minStaffSpread ELSE style.staffDistance

akkoladeDistance ==
    IF style.enableVerticalSpread THEN style.minStaffSpread ELSE style.akkoladeDistance

\* layout2 lines 795-804: yOffset and h of a staff
staffYOffset(staff) ==
    IF staff.lines = 1 THEN (spatium * BARLINE_SPAN_1LINESTAFF_TO) \div 2 ELSE 0

staffH(staff) ==
    IF staff.lines = 1
    THEN (spatium * (BARLINE_SPAN_1LINESTAFF_TO - BARLINE_SPAN_1LINESTAFF_FROM)) \div 2
    ELSE staff.height

\* baseDist with a fault: staffDistance also between the staves of one part
baseDistNoAkkolade(si1, si2) ==
    At(staffs, si1).height + staffDistance + At(staffs, si2).userDist

\* baseDist with a fault: the height of the taller staff of the pair
baseDistTaller(si1, si2) ==
    LET staff == At(staffs, si1)
        staff2 == At(staffs, si2)
        mag == IF firstMeasure # 0 THEN staff.mag ELSE 1
    IN qMax(staff.height, staff2.height)
       + (IF partOf(si1) = partOf(si2) THEN akkoladeDistance * mag ELSE staffDistance)
       + staff2.userDist

\* layout2 lines 815-822: the distance before spacers and skyline
baseDist(si1, si2) ==
    LET staff == At(staffs, si1)
        staff2 == At(staffs, si2)
        mag == IF firstMeasure # 0 THEN staff.mag ELSE 1
    IN staff.height
       + (IF partOf(si1) = partOf(si2) THEN akkoladeDistance * mag ELSE staffDistance)
       + staff2.userDist

\* scanSpacers with a fault: a FIXED spacer does not end the scan
RECURSIVE scanSpacersNoBreak(_, _, _, _)
scanSpacersNoBreak(k, si1, si2, dist) ==
    IF k > Len(ml) THEN [dist |-> dist, fixedSpace |-> FALSE]
    ELSE IF ~isMeasure(ml[k]) THEN scanSpacersNoBreak(k + 1, si1, si2, dist)
    ELSE LET h1 == At(staffs, si1).height
             down == vspacerDown(ml[k], si1)
             rest == scanSpacersNoBreak(k + 1, si1, si2, h1 + down.gap)
         IN IF down.type = "FIXED"
            THEN [dist |-> rest.dist, fixedSpace |-> TRUE]
            ELSE scanSpacersNoBreak(k + 1, si1, si2,
                                    IF down.type # "NONE" THEN qMax(dist, h1 + down.gap) ELSE dist)

\* scanSpacers with a fault: the up-spacers of the lower staff are not read
RECURSIVE scanSpacersNoUp(_, _, _, _)
scanSpacersNoUp(k, si1, si2, dist) ==
    IF k > Len(ml) THEN [dist |-> dist, fixedSpace |-> FALSE]
    ELSE IF ~isMeasure(ml[k]) THEN scanSpacersNoUp(k + 1, si1, si2, dist)
    ELSE LET h1 == At(staffs, si1).height
             down == vspacerDown(ml[k], si1)
             d1 == IF down.type # "NONE" THEN qMax(dist, h1 + down.gap) ELSE dist
         IN IF down.type = "FIXED"
            THEN [dist |-> h1 + down.gap, fixedSpace |-> TRUE]
            ELSE scanSpacersNoUp(k + 1, si1, si2, d1)

\* layout2 lines 823-843: the scan of the measures, from position k of ml on
RECURSIVE scanSpacers(_, _, _, _)
scanSpacers(k, si1, si2, dist) ==
    IF k > Len(ml) THEN [dist |-> dist, fixedSpace |-> FALSE]
    ELSE IF ~isMeasure(ml[k]) THEN scanSpacers(k + 1, si1, si2, dist)
    ELSE LET h1 == At(staffs, si1).height
             down == vspacerDown(ml[k], si1)
             up == vspacerUp(ml[k], si2)
             d1 == IF down.type # "NONE" THEN qMax(dist, h1 + down.gap) ELSE dist
             d2 == IF up.type # "NONE" THEN qMax(d1, up.gap + h1) ELSE d1
         IN IF down.type = "FIXED"
            THEN [dist |-> h1 + down.gap, fixedSpace |-> TRUE]
            ELSE scanSpacers(k + 1, si1, si2, d2)

\* layout2 lines 854-862: the skyline distance layout2 uses, d being what
\* Skyline::minDistance returned
skylineDist(ss, d) ==
    IF style.lineMode /\ ~(d > ss.continuousDist) THEN ss.continuousDist ELSE d

\* rememberedDist with a fault: the last skyline distance replaces the remembered one
rememberedDistLast(ss, d) == IF style.lineMode THEN d ELSE ss.continuousDist

\* layout2 lines 855-859: the continuousDist the staff record remembers
rememberedDist(ss, d) ==
    IF style.lineMode /\ d > ss.continuousDist THEN d ELSE ss.continuousDist

\* staffDist with a fault: the skyline term without minVerticalDistance
staffDistNoMinDistance(ss, si1, si2, d) ==
    LET sc == scanSpacers(1, si1, si2, baseDist(si1, si2))
    IN IF sc.fixedSpace THEN sc.dist ELSE qMax(sc.dist, skylineDist(ss, d))

\* layout2 lines 823-864: the Y advance from staff si1 to the next visible si2
staffDist(ss, si1, si2, d) ==
    LET sc == scanSpacers(1, si1, si2, baseDist(si1, si2))
    IN IF sc.fixedSpace THEN sc.dist
       ELSE qMax(sc.dist, skylineDist(ss, d) + style.minVerticalDistance)

\* layout2 lines 865-867 (806-808 for the last staff): place and save
placeStaff(ss, staff, y) ==
    saveLayout([ss EXCEPT !.yOff = staffYOffset(staff),
                          !.bbox = [x |-> leftMargin, y |-> y - staffYOffset(staff),
                                    w |-> sbbox.w - leftMargin, h |-> staffH(staff)]])

\* layout2 lines 789-869: the loop over the visible staves vs, from position k
\* on, y being the running Y and sky[si1] what minDistance returns for si1
RECURSIVE stackFrom(_, _, _, _, _)
stackFrom(sts, vs, k, y, sky) ==
    LET si1 == vs[k]
        staff == At(staffs, si1)
        ss == At(sts, si1)
    IN IF k = Len(vs) THEN SetAt(sts, si1, placeStaff(ss, staff, y))
       ELSE LET si2 == vs[k + 1]
                fixedSpace == scanSpacers(1, si1, si2, baseDist(si1, si2)).fixedSpace
                ss1 == IF fixedSpace THEN ss
                       ELSE [ss EXCEPT !.continuousDist = rememberedDist(ss, sky[si1])]
            IN stackFrom(SetAt(sts, si1, placeStaff(ss1, staff, y)), vs, k + 1,
                         y + staffDist(ss, si1, si2, sky[si1]), sky)

\* layout2 lines 764-772: hidden staves get an empty box
hideBoxes(sts) ==
    asSeq([i \in 1 .. Len(sts) |-> IF IsVisible(sts, i - 1) THEN sts[i] ELSE [sts[i] EXCEPT !.bbox = RectF]])

\* measureHeight with a fault: an ordinary measure gets the box of a frame
measureHeightNoMargin(m, height) ==
    CASE m.kind \in {"MEASURE", "HBOX"} ->
            [m EXCEPT !.bbox = [x |-> 0, y |-> 0, w |-> m.width, h |-> height]]
      [] OTHER -> m

\* System::setMeasureHeight, for one entry of ml
measureHeight(m, height) ==
    CASE m.kind = "MEASURE" ->
            [m EXCEPT !.bbox = [x |-> 0, y |-> -spatium, w |-> m.width, h |-> height + 2 * spatium]]
      [] m.kind = "HBOX" ->
            [m EXCEPT !.bbox = [x |-> 0, y |-> 0, w |-> m.width, h |-> height]]
      [] OTHER -> m

\* System::setMeasureHeight
setMeasureHeight(ms, height) ==
    asSeq([m \in DOMAIN ms |->
        IF \E k \in 1 .. Len(ml) : ml[k] = m THEN measureHeight(ms[m], height) ELSE ms[m]])

-----------------------------------------------------------------------------
(* Operations of System *)

\* ids of the staff records in use
staffIds(sts) == {sts[k].id : k \in 1 .. Len(sts)}

\* ids of the staff records that names still point to; removeStaff takes a
\* record out of the list without deleting it and without detaching its names
heldStaffIds == {inames[t].sysStaff : t \in DOMAIN inames} \ {0}

\* new SysStaff: an object that is neither in the list nor one that was taken
\* out of it and is still pointed to
freshStaffId(sts) ==
    CHOOSE id \in 1 .. (Len(sts) + Len(inames) + 1) :
        /\ id \notin staffIds(sts) \cup heldStaffIds
        /\ \A other \in 1 .. (id - 1) : other \in staffIds(sts) \cup heldStaffIds

\* RectF::setY(y): the box is moved as it is, or, as QRectF does, its top edge
\* is moved and its bottom edge stays
setY(r, y, keepsBottom) ==
    IF keepsBottom THEN [r EXCEPT !.y = y, !.h = r.h - (y - r.y)]
    ELSE [r EXCEPT !.y = y]

\* insertStaff with a fault: the guess starts from the box of the predecessor
insertStaffBoxY(sts, idx, keepsBottom) ==
    LET fresh == NewSysStaff(freshStaffId(sts))
        staff == IF idx # 0
                 THEN [fresh EXCEPT !.bbox = setY(fresh.bbox,
                                                  At(sts, idx - 1).bbox.y + 6 * spatium,
                                                  keepsBottom)]
                 ELSE fresh
    IN SubSeq(sts, 1, idx) \o <<staff>> \o SubSeq(sts, idx + 1, Len(sts))

\* System::insertStaff(idx)
insertStaff(sts, idx, keepsBottom) ==
    LET fresh == NewSysStaff(freshStaffId(sts))
        staff == IF idx # 0
                 THEN [fresh EXCEPT !.bbox = setY(fresh.bbox,
                                                  sysStaffY(At(sts, idx - 1)) + 6 * spatium,
                                                  keepsBottom)]
                 ELSE fresh
    IN SubSeq(sts, 1, idx) \o <<staff>> \o SubSeq(sts, idx + 1, Len(sts))

\* System::removeStaff(idx)
removeStaff(sts, idx) == SubSeq(sts, 1, idx) \o SubSeq(sts, idx + 2, Len(sts))

\* System::adjustStavesNumber(n)
RECURSIVE adjustStaves(_, _, _)
adjustStaves(sts, n, keepsBottom) ==
    IF Len(sts) < n THEN adjustStaves(insertStaff(sts, Len(sts), keepsBottom), n, keepsBottom)
    ELSE IF Len(sts) > n THEN adjustStaves(removeStaff(sts, Len(sts) - 1), n, keepsBottom)
    ELSE sts

\* RectF is not part of the sources at hand: both behaviours of setY are taken
AdjustStavesNumber(n) ==
    /\ \E keepsBottom \in BOOLEAN : staves' = adjustStaves(staves, n, keepsBottom)
    /\ lastOp' = [op |-> "adjustStavesNumber", n |-> n]
    /\ UNCHANGED <<passes, scoreVars, measures, ml, brackets, inames, systemHeight, sbbox, leftMargin>>

\* System::insertStaff(idx) called on its own
InsertStaff(idx) ==
    /\ \E keepsBottom \in BOOLEAN : staves' = insertStaff(staves, idx, keepsBottom)
    /\ lastOp' = [op |-> "insertStaff", idx |-> idx]
    /\ UNCHANGED <<passes, scoreVars, measures, ml, brackets, inames, systemHeight, sbbox, leftMargin>>

\* System::removeStaff(idx) called on its own
RemoveStaff(idx) ==
    /\ staves' = removeStaff(staves, idx)
    /\ lastOp' = [op |-> "removeStaff", idx |-> idx]
    /\ UNCHANGED <<passes, scoreVars, measures, ml, brackets, inames, systemHeight, sbbox, leftMargin>>

\* the layout collects the measures of a system in score order
inOrder(m) == \A k \in 1 .. Len(ml) : ml[k] < m

\* System::appendMeasure(mb)
AppendMeasure(m) ==
    /\ ml' = Append(ml, m)
    /\ measures' = [measures EXCEPT ![m].system = "this"]
    /\ lastOp' = [op |-> "appendMeasure"]
    /\ UNCHANGED <<passes, scoreVars, staves, brackets, inames, systemHeight, sbbox, leftMargin>>

\* resetParent with a fault: the parent is cleared whatever it points to
resetParentAlways(ms, m) == [ms EXCEPT ![m].system = "none"]

\* if (mb->system() == this) mb->resetExplicitParent()
resetParent(ms, m) ==
    IF ms[m].system = "this" THEN [ms EXCEPT ![m].system = "none"] ELSE ms

\* ml.erase(std::remove(ml.begin(), ml.end(), mb), ml.end())
eraseAll(seq, m) == SelectSeq(seq, LAMBDA x : x # m)

\* System::removeMeasure(mb)
RemoveMeasure(m) ==
    /\ ml' = eraseAll(ml, m)
    /\ measures' = resetParent(measures, m)
    /\ lastOp' = [op |-> "removeMeasure", m |-> m,
                  had |-> \E k \in 1 .. Len(ml) : ml[k] = m]
    /\ UNCHANGED <<passes, scoreVars, staves, brackets, inames, systemHeight, sbbox, leftMargin>>

\* System::removeLastMeasure()
RemoveLastMeasure ==
    /\ IF ml = <<>>
       THEN UNCHANGED <<ml, measures>>
       ELSE /\ ml' = SubSeq(ml, 1, Len(ml) - 1)
            /\ measures' = resetParent(measures, ml[Len(ml)])
    /\ lastOp' = [op |-> "removeLastMeasure"]
    /\ UNCHANGED <<passes, scoreVars, staves, brackets, inames, systemHeight, sbbox, leftMargin>>

\* System::clear(): the measures of ml and the spanner segments of the list
\* that point to this system lose their parent, and both lists are emptied; the
\* dividers stay
Clear ==
    /\ measures' = asSeq([m \in DOMAIN measures |->
                        IF (\E k \in 1 .. Len(ml) : ml[k] = m) /\ measures[m].system = "this"
                        THEN [measures[m] EXCEPT !.system = "none"]
                        ELSE measures[m]])
    /\ ml' = <<>>
    /\ elements' = asSeq([e \in DOMAIN elements |->
                        IF /\ \E k \in 1 .. Len(spannerSegments) : spannerSegments[k] = e
                           /\ elements[e].parent = "this"
                        THEN [elements[e] EXCEPT !.parent = "none"]
                        ELSE elements[e]])
    /\ spannerSegments' = <<>>
    /\ lastOp' = [op |-> "clear"]
    /\ UNCHANGED <<passes, parts, staffs, style, scoreBrackets, otherMl, systemDividerLeft,
                   systemDividerRight, staves, brackets, inames, systemHeight, sbbox,
                   leftMargin>>

\* System::appendMeasure(mb), called on the other system of the score
OtherAppendMeasure(m) ==
    /\ otherMl' = Append(otherMl, m)
    /\ measures' = [measures EXCEPT ![m].system = "other"]
    /\ lastOp' = [op |-> "otherAppendMeasure"]
    /\ UNCHANGED <<passes, parts, staffs, style, scoreBrackets, elementVars, ml, staves,
                   brackets, inames, systemHeight, sbbox, leftMargin>>

\* SysStaff::setShow(v), as the layout calls it when it hides or shows a staff
SetShow(i, v) ==
    /\ i \in Idx(staves)
    /\ At(staves, i).show # v
    /\ staves' = SetAt(staves, i, [At(staves, i) EXCEPT !.show = v])
    /\ lastOp' = [op |-> "setShow"]
    /\ UNCHANGED <<passes, scoreVars, measures, ml, brackets, inames, systemHeight, sbbox, leftMargin>>

\* the upper staves of the adjacent visible pairs
upperStaves(sts) ==
    LET vs == visibleStaves(sts) IN {vs[k] : k \in 1 .. (Len(vs) - 1)}

\* what Skyline::minDistance returns in the repeated passes: one distance below
\* and one above every base distance
SkyDists == {8, 20}

\* what Skyline::minDistance returns in the single pass: the skylines do not face
\* each other, or they ask for more than every base distance
SkyDistsWide == {-1000, 20}

\* System::layout2: sky[i] is what Skyline::minDistance returns for the pair
\* whose upper staff is i.  The layout calls layout2 with one staff record per
\* score staff, and, when a staff is visible, with at least one measure
\* (measures().front() is read at line 892).  When layoutInstrumentNames reads
\* a staff record that does not exist the program ends inside layout2 and no
\* state is left: the model keeps the state of before the call and records the
\* abort, after which nothing runs.
Layout2(sky) ==
    /\ Len(staves) = nstaves
    /\ visibleStaves(staves) # <<>> => ml # <<>>
    /\ IF vbox # 0
       THEN /\ lastOp' = [op |-> "layout2", sky |-> sky]
            /\ passes' = passes + 1
            /\ sbbox' = measures[vbox].bbox
            /\ UNCHANGED <<scoreVars, measures, ml, staves, brackets, inames, systemHeight, leftMargin>>
       ELSE LET hidden == hideBoxes(staves)
                vs == visibleStaves(staves)
            IN IF vs = <<>>
               THEN /\ lastOp' = [op |-> "layout2", sky |-> sky]
                    /\ passes' = passes + 1
                    /\ staves' = hidden
                    /\ UNCHANGED <<scoreVars, measures, ml, brackets, inames, systemHeight, sbbox, leftMargin>>
               ELSE LET stacked == stackFrom(hidden, vs, 1, 0, sky)
                        H == bottom(At(stacked, vs[Len(vs)]).bbox)
                        named == layoutInstrumentNames(stacked, inames)
                    IN IF named.crashed
                       THEN /\ lastOp' = [op |-> "abort"]
                            /\ UNCHANGED <<passes, scoreVars, measures, ml, staves, brackets, inames, systemHeight, sbbox, leftMargin>>
                       ELSE
                       /\ lastOp' = [op |-> "layout2", sky |-> sky]
                       /\ passes' = passes + 1
                       /\ staves' = named.staves
                       /\ inames' = named.inames
                       /\ systemHeight' = H
                       /\ sbbox' = [sbbox EXCEPT !.h = H]
                       /\ measures' = setMeasureHeight(measures, H)
                       /\ brackets' = layoutBracketsVertical(stacked, brackets)
                       /\ UNCHANGED <<scoreVars, ml, leftMargin>>

\* System::restoreLayout2
RestoreLayout2 ==
    /\ lastOp' = [op |-> "restoreLayout2"]
    /\ UNCHANGED passes
    /\ IF vbox # 0
       THEN UNCHANGED <<scoreVars, measures, ml, staves, brackets, inames, systemHeight, sbbox, leftMargin>>
       ELSE /\ staves' = asSeq([k \in 1 .. Len(staves) |-> restoreLayout(staves[k])])
            /\ sbbox' = [sbbox EXCEPT !.h = systemHeight]
            /\ measures' = setMeasureHeight(measures, systemHeight)
            /\ UNCHANGED <<scoreVars, ml, brackets, inames, systemHeight, leftMargin>>

Layout2Step(dists) ==
    \E sky \in [upperStaves(staves) -> dists] : Layout2(sky)

\* System::layoutBrackets, called like layout2 with one staff record per score
\* staff
LayoutBrackets ==
    /\ Len(staves) = nstaves
    /\ LET r == layoutBrackets(staves, brackets)
       IN /\ brackets' = r.brackets
          /\ lastOp' = [op |-> "layoutBrackets", reused |-> r.reused, width |-> r.total]
    /\ UNCHANGED <<passes, scoreVars, measures, ml, staves, inames, systemHeight, sbbox, leftMargin>>

\* addBrackets with a fault: what is left of the previous pass is dropped
addBracketsDropping(sts, brs, measure, mx) ==
    IF sts = <<>> THEN [brackets |-> brs, reused |-> {}]
    ELSE LET columns == getBracketsColumnsCount(sts)
             st == createFrom(sts,
                              [brackets |-> <<>>, bl |-> brs, reused |-> {},
                               bracketWidth |-> asSeq([i \in 1 .. columns |-> 0])],
                              0, columns, measure)
         IN [brackets |-> setBracketsXPosition(st.brackets, mx), reused |-> st.reused]

\* System::addBrackets(ctx, measure), mx being measure->x(): the new _brackets
\* and the ids reused; what is left in bl goes back to the end of _brackets
addBrackets(sts, brs, measure, mx) ==
    IF sts = <<>> THEN [brackets |-> brs, reused |-> {}]
    ELSE LET columns == getBracketsColumnsCount(sts)
             st == createFrom(sts,
                              [brackets |-> <<>>, bl |-> brs, reused |-> {},
                               bracketWidth |-> asSeq([i \in 1 .. columns |-> 0])],
                              0, columns, measure)
         IN [brackets |-> setBracketsXPosition(st.brackets, mx) \o st.bl,
             reused |-> st.reused]

AddBrackets(measure, mx) ==
    /\ Len(staves) <= nstaves
    /\ LET r == addBrackets(staves, brackets, measure, mx)
       IN /\ brackets' = r.brackets
          /\ lastOp' = [op |-> "addBrackets", reused |-> r.reused, measure |-> measure]
    /\ UNCHANGED <<passes, scoreVars, measures, ml, staves, inames, systemHeight, sbbox, leftMargin>>

\* System::setBracketsXPosition(xPosition)
SetBracketsXPosition(xPosition) ==
    /\ brackets' = setBracketsXPosition(brackets, xPosition)
    /\ lastOp' = [op |-> "setBracketsXPosition", x |-> xPosition]
    /\ UNCHANGED <<passes, scoreVars, measures, ml, staves, inames, systemHeight, sbbox, leftMargin>>

\* System::systemNamesWidth
systemNamesWidth(sts, nm) ==
    LET widths == UNION {{nm[At(sts, staffIdx).instrumentNames[k]].width + style.instrumentNameOffset :
                             k \in 1 .. Len(At(sts, staffIdx).instrumentNames)} :
                         staffIdx \in {i \in Idx(sts) : i < SumTo(parts, Len(parts))}}
    IN IF widths = {} THEN 0 ELSE CHOOSE w \in widths : \A v \in widths : v <= w

\* layoutSystem lines 390-409: the box of every staff record, the hidden ones
\* empty, the others at y = 0 (a staff of one line around y = 0)
layoutSystemBoxes(sts, x) ==
    asSeq([k \in 1 .. Len(sts) |->
        LET staff == staffs[k]
            h == IF staff.lines <= 1 THEN staff.lineDistance * staff.mag * spatium
                 ELSE (staff.lines - 1) * staff.lineDistance * staff.mag * spatium
        IN IF ~staff.show \/ ~sts[k].show THEN [sts[k] EXCEPT !.bbox = RectF]
           ELSE IF staff.lines <= 1
           THEN [sts[k] EXCEPT !.bbox = [x |-> x, y |-> -h, w |-> 0, h |-> 2 * h]]
           ELSE [sts[k] EXCEPT !.bbox = [x |-> x, y |-> 0, w |-> 0, h |-> h]]])

\* layoutSystem lines 423-444: the x position of an instrument name
nameX(t, maxNamesWidth, bracketsWidth) ==
    CASE t.align = "LEFT" -> halves(2 * (0 - bracketsWidth))
      [] t.align = "HCENTER" -> halves((maxNamesWidth - t.width) - 2 * bracketsWidth)
      [] OTHER -> halves(2 * (maxNamesWidth - t.width - bracketsWidth))

\* the instrument names held by the staff records
attachedNames(sts) ==
    UNION {{sts[k].instrumentNames[j] : j \in 1 .. Len(sts[k].instrumentNames)} :
           k \in 1 .. Len(sts)}

\* System::layoutSystem.  totalBracketOffset runs layoutBrackets with
\* hideEmptyStaves switched off, then layoutBrackets runs again on its result;
\* the previous op and the staff boxes before the call are kept in lastOp
LayoutSystem(xo1, isFirstSystem, firstSystemIndent) ==
    /\ Len(staves) <= nstaves
    /\ lastOp' = [op |-> "layoutSystem", prev |-> lastOp.op,
                  boxes |-> asSeq([k \in 1 .. Len(staves) |-> staves[k].bbox])]
    /\ IF staves = <<>>
       THEN UNCHANGED <<staves, brackets, inames, leftMargin>>
       ELSE LET names == systemNamesWidth(staves, inames)
                maxNamesWidth == IF isFirstSystem /\ firstSystemIndent
                                 THEN qMax(names, style.firstSystemIndentationValue)
                                 ELSE names
                widest == layoutBrackets(staves, brackets)
                laid == layoutBrackets(staves, widest.brackets)
                maxBracketsWidth == widest.total
                bracketsWidth == laid.total
                bracketWidthDifference == maxBracketsWidth - bracketsWidth
                margin == IF maxNamesWidth = 0
                          THEN (IF style.alignSystemToMargin THEN bracketWidthDifference
                                ELSE maxBracketsWidth)
                          ELSE maxNamesWidth + bracketWidthDifference
                               + style.instrumentNameOffset
            IN /\ leftMargin' = margin
               /\ staves' = layoutSystemBoxes(staves, margin + xo1)
               /\ brackets' = setBracketsXPosition(laid.brackets, xo1 + margin)
               /\ inames' = asSeq([t \in DOMAIN inames |->
                                IF t \in attachedNames(staves)
                                THEN [inames[t] EXCEPT
                                         !.x = nameX(inames[t], maxNamesWidth, bracketsWidth)]
                                ELSE inames[t]])
    /\ UNCHANGED <<passes, scoreVars, measures, ml, systemHeight, sbbox>>

\* EngravingItem::staffIdx() of an instrument name
nameStaffIdx(t) == inames[t].track \div VOICES

\* System::add(el), el an InstrumentName that is not attached to the system
AddName(t) ==
    /\ inames[t].sysStaff = 0
    /\ nameStaffIdx(t) \in Idx(staves)
    /\ LET s == At(staves, nameStaffIdx(t))
       IN /\ staves' = SetAt(staves, nameStaffIdx(t),
                             [s EXCEPT !.instrumentNames = Append(@, t)])
          /\ inames' = [inames EXCEPT ![t].sysStaff = s.id]
    /\ lastOp' = [op |-> "add"]
    /\ UNCHANGED <<passes, scoreVars, measures, ml, brackets, systemHeight, sbbox, leftMargin>>

\* QList::removeOne
removeOne(seq, v) ==
    LET hits == {k \in 1 .. Len(seq) : seq[k] = v}
        k == CHOOSE j \in hits : \A i \in hits : j <= i
    IN IF hits = {} THEN seq ELSE SubSeq(seq, 1, k - 1) \o SubSeq(seq, k + 1, Len(seq))

\* System::remove(el), el an InstrumentName attached to the system
RemoveName(t) ==
    /\ inames[t].sysStaff # 0
    /\ nameStaffIdx(t) \in Idx(staves)
    /\ LET s == At(staves, nameStaffIdx(t))
       IN /\ staves' = SetAt(staves, nameStaffIdx(t),
                             [s EXCEPT !.instrumentNames = removeOne(@, t)])
          /\ inames' = [inames EXCEPT ![t].sysStaff = 0]
    /\ lastOp' = [op |-> "remove"]
    /\ UNCHANGED <<passes, scoreVars, measures, ml, brackets, systemHeight, sbbox, leftMargin>>

NameTexts == <<"Flute", "Fl.", "Piano", "Pno.">>

\* the name element number t, for the staff of that track, not yet attached
NewName(t, track) ==
    [track |-> track, sysStaff |-> 0, text |-> NameTexts[((t - 1) % 4) + 1],
     nameType |-> IF t % 2 = 1 THEN "LONG" ELSE "SHORT",
     layoutPos |-> (t - 1) % 2, offsetY |-> 0, y |-> halves(0),
     width |-> 4 + 2 * t, align |-> IF t % 2 = 1 THEN "RIGHT" ELSE "HCENTER",
     x |-> halves(0)]

\* System::remove(el) lines 1155-1158 on the lists: the name leaves the list of
\* the staff record of its track
removeName(st, t) ==
    LET idx == st.inames[t].track \div VOICES
        s == At(st.staves, idx)
    IN [staves |-> SetAt(st.staves, idx, [s EXCEPT !.instrumentNames = removeOne(@, t)]),
        inames |-> [st.inames EXCEPT ![t].sysStaff = 0]]

\* Score::removeElement(t): the score hands the element to its parent
removeElement(st, t) == removeName(st, t)

\* lines 946-948 and 957-959: removeElement for every name of the list; the
\* list loses its first entry at each turn, which leaves the entries behind
\* it where the loop reads them
RECURSIVE removeAll(_, _)
removeAll(st, names) ==
    IF names = <<>> THEN st
    ELSE removeAll(removeElement(st, Head(names)), Tail(names))

\* lines 945-949: the names of every staff record are removed
RECURSIVE removeAllFrom(_, _)
removeAllFrom(st, staffIdx) ==
    IF staffIdx >= Len(st.staves) THEN st
    ELSE removeAllFrom(removeAll(st, At(st.staves, staffIdx).instrumentNames), staffIdx + 1)

\* Staff::isTop()
isTop(staffIdx) == staffIdx = firstSysStaffOfPart(partOf(staffIdx))

\* the name elements that are free to stand for the object line 971 makes:
\* a new InstrumentName is on no list of the system, so a name a staff record
\* still holds is not among them, whatever its sysStaff says
freeNames(st) ==
    {t \in DOMAIN st.inames :
        st.inames[t].sysStaff = 0 /\ t \notin attachedNames(st.staves)}

\* a StaffName of a part: its text and its anchor position
StaffName(name, pos) == [name |-> name, pos |-> pos]

\* lines 969-980: the name at position idx of the list gets the text of the
\* staff name sn; a missing one is created with the kind asked for and the
\* anchor position of sn, and added to the system (System::add lines 1084-1088)
setName(st, staffIdx, idx, sn, longName) ==
    LET s == At(st.staves, staffIdx)
        text == sn.name
    IN IF idx < Len(s.instrumentNames)
       THEN [st EXCEPT !.inames[s.instrumentNames[idx + 1]].text = text]
       ELSE LET t == CHOOSE f \in freeNames(st) : \A g \in freeNames(st) : f <= g
            IN [staves |-> SetAt(st.staves, staffIdx,
                                 [s EXCEPT !.instrumentNames = Append(@, t)]),
                inames |-> [st.inames EXCEPT
                               ![t] = [NewName(t, staffIdx * VOICES) EXCEPT
                                          !.sysStaff = s.id,
                                          !.nameType = IF longName THEN "LONG" ELSE "SHORT",
                                          !.layoutPos = sn.pos,
                                          !.text = text]]]

\* lines 968-982: the loop over the staff names of the part
RECURSIVE setNames(_, _, _, _, _)
setNames(st, staffIdx, idx, names, longName) ==
    IF idx >= Len(names) THEN st
    ELSE setNames(setName(st, staffIdx, idx, names[idx + 1], longName),
                  staffIdx, idx + 1, names, longName)

\* lines 983-985: for (; idx < size; ++idx) removeElement(instrumentNames[idx])
RECURSIVE removeFrom(_, _, _)
removeFrom(st, staffIdx, idx) ==
    LET names == At(st.staves, staffIdx).instrumentNames
    IN IF idx >= Len(names) THEN st
       ELSE removeFrom(removeElement(st, names[idx + 1]), staffIdx, idx + 1)

\* lines 953-987: the loop over the staff records; partNames[p] is the list
\* of staff names of part p for the requested kind and tick
RECURSIVE setNamesFrom(_, _, _, _)
setNamesFrom(st, staffIdx, partNames, longName) ==
    IF staffIdx >= Len(st.staves) THEN st
    ELSE LET s == At(staffs, staffIdx)
             names == partNames[partOf(staffIdx)]
         IN IF ~isTop(staffIdx) \/ ~s.show
            THEN setNamesFrom(removeAll(st, At(st.staves, staffIdx).instrumentNames),
                              staffIdx + 1, partNames, longName)
            ELSE setNamesFrom(removeFrom(setNames(st, staffIdx, 0, names, longName),
                                         staffIdx, Len(names)),
                              staffIdx + 1, partNames, longName)

\* lines 943-944: the names are suppressed
namesSuppressed ==
    \/ ~style.showInstrumentNames
    \/ (style.hideInstrumentNameIfOneInstrument /\ Len(parts) = 1)

\* the names a call has to create
namesToCreate(partNames) ==
    SumTo(asSeq([p \in 1 .. Len(parts) |->
              LET i == firstSysStaffOfPart(p)
                  have == Len(At(staves, i).instrumentNames)
                  n == Len(partNames[p])
              IN IF At(staffs, i).show /\ n > have THEN n - have ELSE 0]),
          Len(parts))

\* System::setInstrumentNames(ctx, longName, tick); partNames[p] is what
\* longNames(tick) or shortNames(tick) of part p returns
SetInstrumentNames(longName, partNames) ==
    /\ Len(staves) = nstaves
    /\ namesSuppressed \/ vbox # 0
          \/ namesToCreate(partNames)
                <= Cardinality(freeNames([staves |-> staves, inames |-> inames]))
    /\ lastOp' = [op |-> "setInstrumentNames", longName |-> longName,
                  partNames |-> partNames,
                  held |-> asSeq([k \in 1 .. Len(staves) |-> Len(staves[k].instrumentNames)])]
    /\ LET st == [staves |-> staves, inames |-> inames]
           res == IF vbox # 0 THEN st
                  ELSE IF namesSuppressed THEN removeAllFrom(st, 0)
                  ELSE setNamesFrom(st, 0, partNames, longName)
       IN /\ staves' = res.staves
          /\ inames' = res.inames
    /\ UNCHANGED <<passes, scoreVars, measures, ml, brackets, systemHeight, sbbox, leftMargin>>

\* the spanner segment kinds System::add appends to _spannerSegments
\* (lines 1107-1119); the model's scores use two of them
AddSegmentKinds == {"SLUR_SEGMENT", "LET_RING_SEGMENT"}

\* the spanner segment kinds System::remove takes out of _spannerSegments
\* (lines 1177-1187): LET_RING_SEGMENT and PALM_MUTE_SEGMENT are not among them
RemoveSegmentKinds == {"SLUR_SEGMENT"}

\* the kinds of `elements' the switch of System::add has a case for
addHandles(kind) == kind \in AddSegmentKinds \cup {"SYSTEM_DIVIDER", "BRACKET"}

\* the kinds of `elements' the switch of System::remove has a case for
removeHandles(kind) == kind \in RemoveSegmentKinds \cup {"SYSTEM_DIVIDER", "BRACKET"}

\* the argument of add, remove and change: one of `elements' ("element"), one
\* of the instrument names ("name"), or the null pointer
Ref(type, i) == [type |-> type, i |-> i]

nullptr == Ref("null", 0)

\* what add and remove read and write
systemState ==
    [staves |-> staves, inames |-> inames, brackets |-> brackets,
     elements |-> elements, spannerSegments |-> spannerSegments,
     systemDividerLeft |-> systemDividerLeft,
     systemDividerRight |-> systemDividerRight]

\* System::add(el); ndebug tells a release build, which leaves out the check
\* for a segment that is already there.  A Bracket element carries the Bracket
\* it is in its field `bracket'.
add(sys, r, ndebug) ==
    IF r.type = "null" THEN sys
    ELSE IF r.type = "name"
    THEN LET idx == sys.inames[r.i].track \div VOICES
             s == At(sys.staves, idx)
         IN [sys EXCEPT
                !.staves = SetAt(sys.staves, idx,
                                 [s EXCEPT !.instrumentNames = Append(@, r.i)]),
                !.inames[r.i].sysStaff = s.id]
    ELSE LET e == r.i
             el == sys.elements[e]
             there == \E k \in 1 .. Len(sys.spannerSegments) : sys.spannerSegments[k] = e
         IN [sys EXCEPT
                !.elements[e].parent = "this",
                !.brackets = IF el.kind = "BRACKET" THEN Append(@, el.bracket) ELSE @,
                !.spannerSegments =
                    IF el.kind \in AddSegmentKinds /\ (ndebug \/ ~there)
                    THEN Append(@, e) ELSE @,
                !.systemDividerLeft =
                    IF el.kind = "SYSTEM_DIVIDER" /\ el.dividerType = "LEFT"
                    THEN e ELSE @,
                !.systemDividerRight =
                    IF el.kind = "SYSTEM_DIVIDER" /\ el.dividerType # "LEFT"
                    THEN e ELSE @]

\* System::add(el), el one of `elements'
AddElement(e, ndebug) ==
    LET res == add(systemState, Ref("element", e), ndebug)
    IN /\ elements' = res.elements
       /\ brackets' = res.brackets
       /\ spannerSegments' = res.spannerSegments
       /\ systemDividerLeft' = res.systemDividerLeft
       /\ systemDividerRight' = res.systemDividerRight
       /\ lastOp' = [op |-> "addElement", el |-> e,
                     before |-> [spannerSegments |-> spannerSegments,
                                 systemDividerLeft |-> systemDividerLeft,
                                 systemDividerRight |-> systemDividerRight]]
       /\ UNCHANGED <<passes, parts, staffs, style, scoreBrackets, otherMl, measures, ml,
                      staves, inames, systemHeight, sbbox, leftMargin>>

\* System::add(nullptr), lines 1076-1078: the call returns at once
AddNull ==
    LET res == add(systemState, nullptr, TRUE)
    IN /\ staves' = res.staves
       /\ inames' = res.inames
       /\ brackets' = res.brackets
       /\ elements' = res.elements
       /\ spannerSegments' = res.spannerSegments
       /\ systemDividerLeft' = res.systemDividerLeft
       /\ systemDividerRight' = res.systemDividerRight
       /\ lastOp' = [op |-> "addNull"]
       /\ UNCHANGED <<passes, parts, staffs, style, scoreBrackets, otherMl, measures, ml,
                      systemHeight, sbbox, leftMargin>>

\* System::remove lines 1193-1200: the two divider slots after remove(e), e a
\* divider; a build with NDEBUG has no Q_ASSERT
removeDivider(left, right, e) ==
    IF e = left THEN [left |-> 0, right |-> right] ELSE [left |-> left, right |-> 0]

\* line 1197: Q_ASSERT(_systemDividerRight == el) fails
assertFails(e) ==
    /\ elements[e].kind = "SYSTEM_DIVIDER"
    /\ e # systemDividerLeft
    /\ e # systemDividerRight

\* QList::removeOne for a Bracket: the first entry that is this object
removeBracket(brs, b) ==
    LET hits == {k \in 1 .. Len(brs) : brs[k].id = b.id}
        k == CHOOSE j \in hits : \A i \in hits : j <= i
    IN IF hits = {} THEN brs ELSE SubSeq(brs, 1, k - 1) \o SubSeq(brs, k + 1, Len(brs))

\* System::remove(el) where no Q_ASSERT ends the program
remove(sys, r) ==
    IF r.type = "name"
    THEN LET nm == removeName([staves |-> sys.staves, inames |-> sys.inames], r.i)
         IN [sys EXCEPT !.staves = nm.staves, !.inames = nm.inames]
    ELSE LET e == r.i
             el == sys.elements[e]
             slots == removeDivider(sys.systemDividerLeft, sys.systemDividerRight, e)
         IN [sys EXCEPT
                !.brackets = IF el.kind = "BRACKET" THEN removeBracket(@, el.bracket) ELSE @,
                !.spannerSegments =
                    IF el.kind \in RemoveSegmentKinds THEN removeOne(@, e) ELSE @,
                !.systemDividerLeft =
                    IF el.kind = "SYSTEM_DIVIDER" THEN slots.left ELSE @,
                !.systemDividerRight =
                    IF el.kind = "SYSTEM_DIVIDER" THEN slots.right ELSE @]

\* System::remove(el), el one of `elements'; ndebug tells a release build. In a
\* debug build a failing Q_ASSERT ends the program before anything is written.
RemoveElement(e, ndebug) ==
    LET abort == ~ndebug /\ assertFails(e)
        res == IF abort THEN systemState ELSE remove(systemState, Ref("element", e))
    IN /\ brackets' = res.brackets
       /\ spannerSegments' = res.spannerSegments
       /\ systemDividerLeft' = res.systemDividerLeft
       /\ systemDividerRight' = res.systemDividerRight
       /\ lastOp' = [op |-> IF abort THEN "abort" ELSE "removeElement", el |-> e]
       /\ UNCHANGED <<passes, parts, staffs, style, scoreBrackets, otherMl, elements,
                      measures, ml, staves, inames, systemHeight, sbbox, leftMargin>>

\* System::change(o, n): remove(o), then add(n).  In a debug build a failing
\* Q_ASSERT in remove ends the program before add is reached.
Change(o, n, ndebug) ==
    LET abort == ~ndebug /\ o.type = "element" /\ assertFails(o.i)
        res == IF abort THEN systemState ELSE add(remove(systemState, o), n, ndebug)
    IN /\ staves' = res.staves
       /\ inames' = res.inames
       /\ brackets' = res.brackets
       /\ elements' = res.elements
       /\ spannerSegments' = res.spannerSegments
       /\ systemDividerLeft' = res.systemDividerLeft
       /\ systemDividerRight' = res.systemDividerRight
       /\ lastOp' = [op |-> IF abort THEN "abort" ELSE "change"]
       /\ UNCHANGED <<passes, parts, staffs, style, scoreBrackets, otherMl, measures, ml,
                      systemHeight, sbbox, leftMargin>>

\* lines 1350-1357, one turn of the loop: a SystemDivider tag makes a new
\* divider with this system as its parent, reads it and adds it; any other
\* tag is skipped.  The tag is named by the divider type its content gives.
readTag(sys, tag) ==
    IF tag \notin {"left", "right"} THEN sys
    ELSE LET sd == [kind |-> "SYSTEM_DIVIDER", parent |-> "this",
                    dividerType |-> IF tag = "left" THEN "LEFT" ELSE "RIGHT"]
             made == [sys EXCEPT !.elements = Append(@, sd)]
         IN add(made, Ref("element", Len(made.elements)), TRUE)

\* the loop of System::read over the tags of the element
RECURSIVE readTags(_, _, _)
readTags(sys, tags, k) ==
    IF k > Len(tags) THEN sys ELSE readTags(readTag(sys, tags[k]), tags, k + 1)

\* System::read(e); tags are the child elements of e in their order
Read(tags) ==
    LET res == readTags(systemState, tags, 1)
    IN /\ staves' = res.staves
       /\ inames' = res.inames
       /\ brackets' = res.brackets
       /\ elements' = res.elements
       /\ spannerSegments' = res.spannerSegments
       /\ systemDividerLeft' = res.systemDividerLeft
       /\ systemDividerRight' = res.systemDividerRight
       /\ lastOp' = [op |-> "read"]
       /\ UNCHANGED <<passes, parts, staffs, style, scoreBrackets, otherMl, measures, ml,
                      systemHeight, sbbox, leftMargin>>

\* y2staff with a fault: the loop does not stop at the first band
RECURSIVE y2staffLast(_, _, _)
y2staffLast(sts, idx, y) ==
    LET margin == spatium * 2
        later == y2staffLast(sts, idx + 1, y)
        s == At(sts, idx)
    IN IF idx >= Len(sts) THEN -1
       ELSE IF later # -1 THEN later
       ELSE IF y >= top(s.bbox) - margin /\ y < bottom(s.bbox) + margin THEN idx
       ELSE -1

\* System::y2staff lines 1006-1015: the loop over _staves from idx on, y being
\* relative to the system already
RECURSIVE y2staffFrom(_, _, _)
y2staffFrom(sts, idx, y) ==
    LET margin == spatium * 2
        s == At(sts, idx)
        y1 == top(s.bbox) - margin
        y2 == bottom(s.bbox) + margin
    IN IF idx >= Len(sts) THEN -1
       ELSE IF y >= y1 /\ y < y2 THEN idx
       ELSE y2staffFrom(sts, idx + 1, y)

\* System::y2staff(y), posY being pos().y()
y2staff(sts, posY, y) == y2staffFrom(sts, 0, y - posY)

\* the query System::y2staff(y) on a system placed at posY
Y2Staff(posY, y) ==
    /\ lastOp' = [op |-> "y2staff", y |-> y, posY |-> posY,
                  result |-> y2staff(staves, posY, y)]
    /\ UNCHANGED <<passes, scoreVars, measures, ml, staves, brackets, inames, systemHeight,
                   sbbox, leftMargin>>

\* the spacing factors are the multiples of 1 / FactorDen
FactorDen == 4

\* the boundary with a fault: the two branches of the preferred staff are swapped
searchBoundarySwapped(sts, i, ni, preferredStaff, num) ==
    LET s1y2 == At(sts, i).bbox.y + At(sts, i).bbox.h
        gap == At(sts, ni).bbox.y - s1y2
    IN IF i = preferredStaff THEN FactorDen * s1y2
       ELSE IF ni = preferredStaff THEN FactorDen * (s1y2 + gap)
       ELSE FactorDen * s1y2 + gap * num

\* System::searchStaff lines 1047-1057: sy2, the lower end of the zone of staff
\* i whose next visible staff is ni, times FactorDen; the spacing factor is
\* num / FactorDen
searchBoundary(sts, i, ni, preferredStaff, num) ==
    LET s1y2 == At(sts, i).bbox.y + At(sts, i).bbox.h
        gap == At(sts, ni).bbox.y - s1y2
    IN IF i = preferredStaff THEN FactorDen * (s1y2 + gap)
       ELSE IF ni = preferredStaff THEN FactorDen * s1y2
       ELSE FactorDen * s1y2 + gap * num

\* System::searchStaff lines 1033-1066: the loop from staff i on; pageBottom is
\* page()->height() - pos().y()
RECURSIVE searchFrom(_, _, _, _, _, _)
searchFrom(sts, i, y, preferredStaff, num, pageBottom) ==
    LET ni == nextVisibleFrom(sts, i + 1)
        sy2 == IF ni # nstaves THEN searchBoundary(sts, i, ni, preferredStaff, num)
               ELSE FactorDen * pageBottom
    IN IF i >= nstaves THEN i
       ELSE IF ~IsVisible(sts, i) THEN searchFrom(sts, i + 1, y, preferredStaff, num, pageBottom)
       ELSE IF FactorDen * y > sy2
            THEN searchFrom(sts, ni, y, preferredStaff, num, pageBottom)
       ELSE i

\* System::searchStaff(y, preferredStaff, spacingFactor)
searchStaff(sts, y, preferredStaff, num, pageBottom) ==
    searchFrom(sts, 0, y, preferredStaff, num, pageBottom)

\* the query System::searchStaff on a system at posY of a page of the given height
SearchStaff(y, preferredStaff, num, pageHeight, posY) ==
    /\ lastOp' = [op |-> "searchStaff", y |-> y, preferredStaff |-> preferredStaff,
                  num |-> num, pageBottom |-> pageHeight - posY,
                  result |-> searchStaff(staves, y, preferredStaff, num, pageHeight - posY)]
    /\ UNCHANGED <<passes, scoreVars, measures, ml, staves, brackets, inames, systemHeight,
                   sbbox, leftMargin>>

-----------------------------------------------------------------------------
(* The scores the model lays out *)

DefaultStyle ==
    [minVerticalDistance |-> 2, staffDistance |-> 6, akkoladeDistance |-> 4,
     minStaffSpread |-> 10, enableVerticalSpread |-> FALSE, lineMode |-> FALSE,
     alwaysShowBracketsWhenEmptyStavesAreHidden |-> FALSE, bracketDistance |-> 2,
     instrumentNameOffset |-> 2, alignSystemToMargin |-> FALSE,
     firstSystemIndentationValue |-> 10, showInstrumentNames |-> TRUE,
     hideInstrumentNameIfOneInstrument |-> FALSE]

PlainStaff == [show |-> TRUE, lines |-> 5, lineDistance |-> 1, height |-> 8,
               userDist |-> 0, mag |-> 1]

TallStaff == [show |-> TRUE, lines |-> 5, lineDistance |-> 1, height |-> 12,
              userDist |-> 4, mag |-> 2]

OneLineStaff == [show |-> TRUE, lines |-> 1, lineDistance |-> 2, height |-> 0,
                 userDist |-> 0, mag |-> 1]

\* a staff whose height is an odd number of units
OddStaff == [PlainStaff EXCEPT !.height = 7]

HiddenStaff == [PlainStaff EXCEPT !.show = FALSE]

MagStaff == [PlainStaff EXCEPT !.mag = 2]

StaffProfiles == {PlainStaff, TallStaff, OneLineStaff, HiddenStaff}

\* three staves, at most one of them one-line or hidden in the score
StackStaffs ==
    {f \in [1 .. 3 -> StaffProfiles] :
        Cardinality({k \in 1 .. 3 : f[k] \in {OneLineStaff, HiddenStaff}}) <= 1}

PartShapes == {<<2, 1>>, <<1, 2>>}

NoSpacers(n) == asSeq([k \in 1 .. n |-> NoSpacer])

\* no staff has a bracket item
NoBrackets(n) == asSeq([k \in 1 .. n |-> <<>>])

\* a measure base of the given kind without spacers, not yet on a system
PlainMeasure(n, kind) ==
    [kind |-> kind, down |-> NoSpacers(n), up |-> NoSpacers(n), width |-> 20,
     bbox |-> RectF, system |-> "none"]

\* m with a down-spacer of type t ("FIXED" or "DOWN") and gap g on staff si
WithDown(m, si, t, g) == [m EXCEPT !.down[si + 1] = [type |-> t, gap |-> g]]

\* m with an up-spacer of gap g on staff si
WithUp(m, si, g) == [m EXCEPT !.up[si + 1] = [type |-> "UP", gap |-> g]]

\* the measure sequences of the scores laid out (three staves)
MeasureLists ==
    LET M == PlainMeasure(3, "MEASURE") IN
    { <<M>>,
      <<PlainMeasure(3, "HBOX"), M>>,
      <<PlainMeasure(3, "VBOX")>>,
      <<WithDown(M, 0, "FIXED", 2), WithDown(M, 0, "FIXED", 30)>>,
      <<WithUp(WithDown(M, 0, "DOWN", 30), 1, 2), WithDown(M, 0, "FIXED", 2)>>,
      <<WithDown(M, 1, "FIXED", 30), WithUp(M, 2, 30)>>,
      <<WithDown(M, 1, "DOWN", 2), WithUp(WithDown(M, 1, "FIXED", 0), 1, 30)>>,
      <<WithUp(WithDown(M, 0, "DOWN", 30), 2, 30), M>> }

InitSystem ==
    /\ ml = <<>>
    /\ otherMl = <<>>
    /\ spannerSegments = <<>>
    /\ systemDividerLeft = 0
    /\ systemDividerRight = 0
    /\ staves = <<>>
    /\ brackets = <<>>
    /\ systemHeight = 0
    /\ sbbox = [x |-> 0, y |-> 0, w |-> 100, h |-> 0]
    /\ leftMargin = 0
    /\ lastOp = [op |-> "System"]
    /\ passes = 0

-----------------------------------------------------------------------------
(* SpecStack: one stacking pass over many scores *)

InitStack ==
    /\ parts \in PartShapes
    /\ staffs \in StackStaffs
    /\ style \in {[DefaultStyle EXCEPT !.enableVerticalSpread = b] : b \in BOOLEAN}
    /\ scoreBrackets = NoBrackets(nstaves)
    /\ measures \in MeasureLists
    /\ inames = <<>>
    /\ elements = <<>>
    /\ InitSystem

NextStack ==
    \/ Len(staves) # nstaves /\ AdjustStavesNumber(nstaves)
    \/ \E m \in DOMAIN measures : passes = 0 /\ inOrder(m) /\ AppendMeasure(m)
    \/ \E i \in Idx(staves) : \E v \in BOOLEAN : passes < MaxPassesWide /\ SetShow(i, v)
    \/ passes < MaxPassesWide /\ Layout2Step(SkyDistsWide)

SpecStack == InitStack /\ [][NextStack]_vars

-----------------------------------------------------------------------------
(* SpecPasses: repeated passes, page view and continuous view, over few scores *)

PassesStaffs ==
    { <<PlainStaff, PlainStaff, PlainStaff>>,
      <<MagStaff, PlainStaff, OneLineStaff>>,
      <<TallStaff, PlainStaff, TallStaff>> }

PassesMeasureLists ==
    LET M == PlainMeasure(3, "MEASURE") IN
    { <<M>>,
      <<PlainMeasure(3, "HBOX"), WithDown(M, 1, "FIXED", 2)>>,
      <<WithUp(WithDown(M, 0, "DOWN", 16), 2, 10)>> }

InitPasses ==
    /\ parts \in PartShapes
    /\ staffs \in PassesStaffs
    /\ style \in {DefaultStyle, [DefaultStyle EXCEPT !.lineMode = TRUE],
                  [DefaultStyle EXCEPT !.enableVerticalSpread = TRUE]}
    /\ scoreBrackets = NoBrackets(nstaves)
    /\ measures \in PassesMeasureLists
    /\ (\E m \in DOMAIN measures : vspacerUp(m, 2).type # "NONE") =>
          staffs = <<PlainStaff, PlainStaff, PlainStaff>>
    /\ inames = <<>>
    /\ elements = <<>>
    /\ InitSystem

NextPasses ==
    \/ Len(staves) # nstaves /\ AdjustStavesNumber(nstaves)
    \/ \E m \in DOMAIN measures : passes = 0 /\ inOrder(m) /\ AppendMeasure(m)
    \/ \E i \in Idx(staves) : \E v \in BOOLEAN : passes < MaxPasses /\ SetShow(i, v)
    \/ passes < MaxPasses /\ Layout2Step(SkyDists)
    \/ lastOp.op # "restoreLayout2" /\ RestoreLayout2

SpecPasses == InitPasses /\ [][NextPasses]_vars

-----------------------------------------------------------------------------
(* SpecBrackets: bracket passes over scores with nested and chained brackets,
   closed by the vertical layout that follows the x positions *)

BracketItem(staffIdx, col, type, sp) ==
    [staff |-> staffIdx, column |-> col, type |-> type, span |-> sp]

\* the placeholder Staff::brackets() holds for a column the staff does not use
NoBracketItem(staffIdx, col) == BracketItem(staffIdx, col, "NO_BRACKET", 0)

BracketSetups ==
    { \* one bracket over the three staves
      << <<BracketItem(0, 0, "BRACKET", 3)>>, <<>>, <<>> >>,
      \* a brace of one staff, a bracket of two, a bracket running past the last staff
      << <<BracketItem(0, 0, "BRACE", 1)>>,
         <<BracketItem(1, 0, "BRACKET", 2)>>,
         <<NoBracketItem(2, 0), BracketItem(2, 1, "SQUARE", 2)>> >>,
      \* a brace nested in a bracket
      << <<BracketItem(0, 0, "BRACKET", 3), BracketItem(0, 1, "BRACE", 2)>>, <<>>, <<>> >>,
      \* a bracket of column 1 around a brace of column 0
      << <<NoBracketItem(0, 0), BracketItem(0, 1, "BRACKET", 3)>>,
         <<BracketItem(1, 0, "BRACE", 1)>>,
         <<>> >>,
      \* three columns, each bracket sharing a staff with the next
      << <<BracketItem(0, 0, "BRACKET", 2)>>,
         <<NoBracketItem(1, 0), BracketItem(1, 1, "SQUARE", 2)>>,
         <<NoBracketItem(2, 0), NoBracketItem(2, 1), BracketItem(2, 2, "BRACE", 1)>> >> }

\* the x positions the bracket passes are given
BracketXs == {0, 12}

\* no skyline reaches the staff above
SkyNone == {-1000}

InitBrackets ==
    /\ parts = <<2, 1>>
    /\ staffs = <<PlainStaff, PlainStaff, PlainStaff>>
    /\ style \in {[DefaultStyle EXCEPT !.alwaysShowBracketsWhenEmptyStavesAreHidden = b] :
                     b \in BOOLEAN}
    /\ scoreBrackets \in BracketSetups
    /\ measures = <<PlainMeasure(3, "HBOX"), PlainMeasure(3, "MEASURE")>>
    /\ inames = <<>>
    /\ elements = <<>>
    /\ InitSystem

NextBrackets ==
    \/ Len(staves) # nstaves /\ AdjustStavesNumber(nstaves)
    \/ \E m \in DOMAIN measures : passes = 0 /\ inOrder(m) /\ AppendMeasure(m)
    \/ \E i \in Idx(staves) : \E v \in BOOLEAN : passes = 0 /\ SetShow(i, v)
    \/ passes = 0 /\ LayoutBrackets
    \/ \E x \in BracketXs : passes = 0 /\ SetBracketsXPosition(x)
    \/ passes < MaxPassesWide /\ lastOp.op = "setBracketsXPosition" /\ Layout2Step(SkyNone)

SpecBrackets == InitBrackets /\ [][NextBrackets]_vars

-----------------------------------------------------------------------------
(* SpecAddBrackets: brackets in front of the system and in front of a measure
   that follows a horizontal frame *)

\* Measure::x() of the measure at position k of ml: the widths before it
measureX(k) == SumTo(asSeq([j \in 1 .. Len(ml) |-> measures[ml[j]].width]), k - 1)

InitAddBrackets ==
    /\ parts = <<2, 1>>
    /\ staffs = <<PlainStaff, PlainStaff, PlainStaff>>
    /\ style = DefaultStyle
    /\ scoreBrackets \in
          { << <<BracketItem(0, 0, "BRACKET", 3)>>, <<>>, <<>> >>,
            << <<BracketItem(0, 0, "BRACKET", 3), BracketItem(0, 1, "BRACE", 2)>>, <<>>, <<>> >> }
    /\ measures = <<PlainMeasure(3, "MEASURE"), PlainMeasure(3, "HBOX"), PlainMeasure(3, "MEASURE")>>
    /\ inames = <<>>
    /\ elements = <<>>
    /\ InitSystem

NextAddBrackets ==
    \/ Len(staves) # nstaves /\ AdjustStavesNumber(nstaves)
    \/ \E m \in DOMAIN measures : inOrder(m) /\ AppendMeasure(m)
    \/ \E i \in Idx(staves) : \E v \in BOOLEAN : lastOp.op # "setShow" /\ SetShow(i, v)
    \/ LayoutBrackets
    \/ \E k \in 1 .. Len(ml) : isMeasure(ml[k]) /\ AddBrackets(ml[k], measureX(k))

SpecAddBrackets == InitAddBrackets /\ [][NextAddBrackets]_vars

-----------------------------------------------------------------------------
(* SpecNames: instrument names on parts whose staves get hidden *)

NameTracks == {0, VOICES}

InitNames ==
    /\ parts \in {<<2, 1>>, <<1, 2>>}
    /\ staffs = <<PlainStaff, PlainStaff, TallStaff>>
    /\ style = DefaultStyle
    /\ scoreBrackets = NoBrackets(nstaves)
    /\ measures = <<PlainMeasure(3, "MEASURE")>>
    /\ elements = <<>>
    /\ InitSystem
    /\ \E tr \in [1 .. MaxNames -> NameTracks] :
          inames = asSeq([t \in 1 .. MaxNames |-> NewName(t, tr[t])])

NextNames ==
    \/ Len(staves) # nstaves /\ AdjustStavesNumber(nstaves)
    \/ \E m \in DOMAIN measures : inOrder(m) /\ AppendMeasure(m)
    \/ \E i \in Idx(staves) : \E v \in BOOLEAN : passes < MaxPassesWide /\ SetShow(i, v)
    \/ \E t \in DOMAIN inames : passes < MaxPassesWide /\ AddName(t)
    \/ \E t \in DOMAIN inames : passes < MaxPassesWide /\ RemoveName(t)
    \/ passes < MaxPassesWide /\ Layout2Step(SkyNone)

SpecNames == InitNames /\ [][NextNames]_vars

-----------------------------------------------------------------------------
(* SpecRelayout: the horizontal pass, the vertical pass, and the cheap
   re-application of the vertical pass *)

\* the offsets of the system on its page
SystemXs == {0, 4}

RelayoutStaffs ==
    { <<OneLineStaff, PlainStaff, TallStaff>>,
      <<HiddenStaff, PlainStaff, PlainStaff>> }

RelayoutBrackets ==
    { << <<BracketItem(0, 0, "BRACKET", 3), BracketItem(0, 1, "BRACE", 2)>>, <<>>, <<>> >>,
      << <<>>, <<>>, <<BracketItem(2, 0, "BRACKET", 1)>> >> }

\* the operations that build the system before its first layout
SetupOps == {"System", "adjustStavesNumber", "appendMeasure", "add"}

InitRelayout ==
    /\ parts = <<2, 1>>
    /\ staffs \in RelayoutStaffs
    /\ style = DefaultStyle
    /\ scoreBrackets \in RelayoutBrackets
    /\ measures = <<PlainMeasure(3, "MEASURE")>>
    /\ inames = asSeq([t \in 1 .. 1 |-> NewName(t, 0)])
    /\ elements = <<>>
    /\ InitSystem

NextRelayout ==
    \/ Len(staves) # nstaves /\ AdjustStavesNumber(nstaves)
    \/ \E m \in DOMAIN measures : lastOp.op \in SetupOps /\ inOrder(m) /\ AppendMeasure(m)
    \/ \E t \in DOMAIN inames : lastOp.op \in SetupOps /\ AddName(t)
    \/ \E i \in Idx(staves) : \E v \in BOOLEAN :
          passes >= 1 /\ passes < MaxPasses /\ lastOp.op # "setShow" /\ SetShow(i, v)
    \/ \E xo1 \in SystemXs : \E isFirstSystem \in BOOLEAN :
          LayoutSystem(xo1, isFirstSystem, TRUE)
    \/ passes < MaxPasses /\ lastOp.op = "layoutSystem" /\ Layout2Step(SkyNone)
    \/ passes < MaxPasses /\ lastOp.op = "setShow" /\ visibleStaves(staves) = <<>>
          /\ Layout2Step(SkyNone)
    \/ lastOp.op = "layoutSystem" /\ RestoreLayout2

SpecRelayout == InitRelayout /\ [][NextRelayout]_vars

-----------------------------------------------------------------------------
(* SpecMeasures: two systems of one score share the measure bases *)

InitMeasures ==
    /\ parts = <<1>>
    /\ staffs = <<PlainStaff>>
    /\ style = DefaultStyle
    /\ scoreBrackets = NoBrackets(1)
    /\ measures = <<PlainMeasure(1, "MEASURE"), PlainMeasure(1, "HBOX")>>
    /\ inames = <<>>
    /\ elements = <<>>
    /\ InitSystem

NextMeasures ==
    \/ \E m \in DOMAIN measures : Len(ml) < MaxMl /\ AppendMeasure(m)
    \/ \E m \in DOMAIN measures : Len(otherMl) < MaxMl /\ OtherAppendMeasure(m)
    \/ \E m \in DOMAIN measures : RemoveMeasure(m)
    \/ RemoveLastMeasure
    \/ Clear

SpecMeasures == InitMeasures /\ [][NextMeasures]_vars

-----------------------------------------------------------------------------
(* SpecStaves: the number of staff records follows any requested number *)

InitStaves ==
    /\ parts = <<2, 1>>
    /\ staffs \in RelayoutStaffs \cup {<<PlainStaff, TallStaff, OneLineStaff>>}
    /\ style = DefaultStyle
    /\ scoreBrackets = NoBrackets(3)
    /\ measures = <<PlainMeasure(3, "MEASURE")>>
    /\ inames = <<>>
    /\ elements = <<>>
    /\ InitSystem

NextStaves ==
    \/ \E n \in 0 .. MaxStaves : AdjustStavesNumber(n)
    \/ \E m \in DOMAIN measures : inOrder(m) /\ AppendMeasure(m)
    \/ Len(staves) = nstaves /\ passes < MaxPasses /\ Layout2Step(SkyDists)

SpecStaves == InitStaves /\ [][NextStaves]_vars

-----------------------------------------------------------------------------
(* SpecSetNames: the names of the parts are set again and again, on scores
   that show them and on scores that suppress them *)

\* the program runs until a Q_ASSERT has failed or a staff record that does
\* not exist has been read
running == lastOp.op # "abort"

\* the text of the staff name of part p, long or short
partNameText(p, longName) == NameTexts[(((p - 1) * 2 + (IF longName THEN 0 ELSE 1)) % 4) + 1]

\* the anchor position of the k-th staff name of part p: never its place in
\* the list, and for the first part another one for the long name than for
\* the short one
scoreNamePos(p, k, longName) ==
    IF p = 1 THEN (IF longName THEN k ELSE (k + 1) % 3) ELSE k % 2

\* the staff names of the parts of the score, cnt[p] of them for part p
scoreNames(longName, cnt) ==
    asSeq([p \in 1 .. Len(parts) |->
        IF cnt[p] = 0 THEN <<>>
        ELSE asSeq([k \in 1 .. cnt[p] |->
                 StaffName(partNameText(p, longName), scoreNamePos(p, k, longName))])])

\* the name elements of the score: the odd ones for staff 1, the even ones
\* for staff 0
NamePool == asSeq([t \in 1 .. MaxNames + 1 |-> NewName(t, (t % 2) * VOICES)])

InitSetNames ==
    /\ parts \in {<<2, 1>>, <<3>>}
    /\ staffs \in {<<PlainStaff, PlainStaff, TallStaff>>, <<HiddenStaff, PlainStaff, TallStaff>>}
    /\ style \in {DefaultStyle,
                  [DefaultStyle EXCEPT !.showInstrumentNames = FALSE],
                  [DefaultStyle EXCEPT !.hideInstrumentNameIfOneInstrument = TRUE]}
    /\ scoreBrackets = NoBrackets(3)
    /\ measures = <<PlainMeasure(3, "MEASURE")>>
    /\ inames = NamePool
    /\ elements = <<>>
    /\ InitSystem

NextSetNames ==
    \/ running /\ Len(staves) # nstaves /\ AdjustStavesNumber(nstaves)
    \/ \E m \in DOMAIN measures : running /\ inOrder(m) /\ AppendMeasure(m)
    \/ \E t \in DOMAIN inames : lastOp.op \in SetupOps /\ AddName(t)
    \/ \E i \in Idx(staves) : \E v \in BOOLEAN : lastOp.op \in SetupOps /\ SetShow(i, v)
    \/ running /\ passes = 0 /\ Layout2Step(SkyNone)
    \/ \E longName \in BOOLEAN : \E cnt \in [1 .. Len(parts) -> 0 .. MaxNames] :
           /\ running
           /\ lastOp.op # "setInstrumentNames"
           /\ SetInstrumentNames(longName, scoreNames(longName, cnt))

SpecSetNames == InitSetNames /\ [][NextSetNames]_vars

-----------------------------------------------------------------------------
(* SpecElements: elements of every kind are handed to add and remove *)

Element(kind, parent, dividerType) ==
    [kind |-> kind, parent |-> parent, dividerType |-> dividerType]

\* a note of a chord, two spanner segments and three dividers
ScoreElements ==
    << Element("NOTE", "chord", "NONE"),
       Element("SLUR_SEGMENT", "none", "NONE"),
       Element("LET_RING_SEGMENT", "none", "NONE"),
       Element("SYSTEM_DIVIDER", "none", "LEFT"),
       Element("SYSTEM_DIVIDER", "none", "RIGHT"),
       Element("SYSTEM_DIVIDER", "none", "LEFT") >>

InitElements ==
    /\ parts = <<2, 1>>
    /\ staffs = <<PlainStaff, PlainStaff, TallStaff>>
    /\ style = DefaultStyle
    /\ scoreBrackets = NoBrackets(3)
    /\ measures = <<PlainMeasure(3, "MEASURE")>>
    /\ inames = <<NewName(1, 0)>>
    /\ elements = ScoreElements
    /\ InitSystem

NextElements ==
    \/ running /\ Len(staves) # nstaves /\ AdjustStavesNumber(nstaves)
    \/ \E t \in DOMAIN inames : running /\ AddName(t)
    \/ \E e \in DOMAIN elements : \E ndebug \in BOOLEAN :
          running /\ Len(spannerSegments) < MaxSegments /\ AddElement(e, ndebug)
    \/ \E e \in DOMAIN elements : \E ndebug \in BOOLEAN : running /\ RemoveElement(e, ndebug)
    \/ running /\ Clear

SpecElements == InitElements /\ [][NextElements]_vars

-----------------------------------------------------------------------------
(* SpecChange: a system is read from a file, elements are put in the place *)
(* of others, brackets are added and removed                               *)

\* a Bracket element: the element and the Bracket it is
BracketElement(b) ==
    [kind |-> "BRACKET", parent |-> "none", dividerType |-> "NONE", bracket |-> b]

\* two spanner segments, two dividers and a bracket
ChangeElements ==
    << Element("SLUR_SEGMENT", "none", "NONE"),
       Element("LET_RING_SEGMENT", "none", "NONE"),
       Element("SYSTEM_DIVIDER", "none", "LEFT"),
       Element("SYSTEM_DIVIDER", "none", "RIGHT"),
       BracketElement(newBracket(1, BracketItem(0, 0, "NORMAL", 2), 0, 1)) >>

\* the contents System::read is given: the divider tags and an unknown one
TagLists == {<<"unknown", "left">>, <<"left", "right">>}

\* what change is called with: the elements and the names
Refs ==
    {Ref("element", e) : e \in DOMAIN elements} \cup {Ref("name", t) : t \in DOMAIN inames}

\* change puts an element in the place of one of its own sort
sameSort(o, n) ==
    /\ o.type = n.type
    /\ o.type = "element" =>
          \/ elements[o.i].kind = elements[n.i].kind
          \/ {elements[o.i].kind, elements[n.i].kind} \subseteq AddSegmentKinds

\* the staff of a name exists, a name that is added is on no list, and the
\* lists have room
refReady(o, n) ==
    /\ n = nullptr \/ sameSort(o, n)
    /\ \A r \in {o, n} : r.type = "name" => nameStaffIdx(r.i) \in Idx(staves)
    /\ n.type = "name" => (n.i \notin attachedNames(staves) \/ n = o)
    /\ n.type = "element" =>
          /\ Len(spannerSegments) < MaxSegments
          /\ Len(brackets) < MaxSegments

InitChange ==
    /\ parts = <<2, 1>>
    /\ staffs = <<PlainStaff, PlainStaff, TallStaff>>
    /\ style = DefaultStyle
    /\ scoreBrackets = NoBrackets(3)
    /\ measures = <<PlainMeasure(3, "MEASURE")>>
    /\ inames = <<NewName(1, 0), NewName(2, 0)>>
    /\ elements = ChangeElements
    /\ InitSystem

\* the Bracket elements of the score
bracketElements == {e \in DOMAIN elements : elements[e].kind = "BRACKET"}

NextChange ==
    \/ running /\ Len(staves) # nstaves /\ AdjustStavesNumber(nstaves)
    \/ \E tags \in TagLists : running /\ lastOp.op = "System" /\ Read(tags)
    \/ \E e \in bracketElements : \E ndebug \in BOOLEAN :
          running /\ Len(brackets) < MaxSegments /\ AddElement(e, ndebug)
    \/ running /\ AddNull
    \/ \E e \in bracketElements : \E ndebug \in BOOLEAN : running /\ RemoveElement(e, ndebug)
    \/ \E o \in Refs : \E n \in Refs \cup {nullptr} : \E ndebug \in BOOLEAN :
          running /\ refReady(o, n) /\ Change(o, n, ndebug)

SpecChange == InitChange /\ [][NextChange]_vars

-----------------------------------------------------------------------------
(* SpecHit: pointer positions on stacked systems *)

\* the canvas positions asked for, and the positions of the system on its page
HitYs == (-8) .. 48

SystemYs == {0, 10}

InitHit ==
    /\ parts = <<2, 1>>
    /\ staffs \in {<<PlainStaff, PlainStaff, PlainStaff>>, <<OneLineStaff, PlainStaff, TallStaff>>}
    /\ style = DefaultStyle
    /\ scoreBrackets = NoBrackets(3)
    /\ measures = <<PlainMeasure(3, "MEASURE")>>
    /\ inames = <<>>
    /\ elements = <<>>
    /\ InitSystem

NextHit ==
    \/ Len(staves) # nstaves /\ AdjustStavesNumber(nstaves)
    \/ \E m \in DOMAIN measures : inOrder(m) /\ AppendMeasure(m)
    \/ \E i \in Idx(staves) : \E v \in BOOLEAN : passes = 0 /\ SetShow(i, v)
    \/ passes < MaxPassesWide /\ Layout2Step(SkyNone)
    \/ \E posY \in SystemYs : \E y \in HitYs : Y2Staff(posY, y)

SpecHit == InitHit /\ [][NextHit]_vars

-----------------------------------------------------------------------------
(* SpecHeights: the height of the system reaches every entry of ml *)

InitHeights ==
    /\ parts = <<2, 1>>
    /\ staffs \in {<<PlainStaff, PlainStaff, PlainStaff>>, <<OneLineStaff, PlainStaff, TallStaff>>,
                   <<PlainStaff, PlainStaff, HiddenStaff>>}
    /\ style = DefaultStyle
    /\ scoreBrackets = NoBrackets(3)
    /\ measures \in {<<PlainMeasure(3, "HBOX"), PlainMeasure(3, "MEASURE"), PlainMeasure(3, "FBOX")>>,
                     <<PlainMeasure(3, "MEASURE"), PlainMeasure(3, "TBOX"), PlainMeasure(3, "MEASURE")>>}
    /\ inames = <<>>
    /\ elements = <<>>
    /\ InitSystem

NextHeights ==
    \/ Len(staves) # nstaves /\ AdjustStavesNumber(nstaves)
    \/ \E m \in DOMAIN measures : inOrder(m) /\ AppendMeasure(m)
    \/ \E i \in Idx(staves) : \E v \in BOOLEAN : passes < MaxPasses /\ SetShow(i, v)
    \/ passes < MaxPasses /\ Layout2Step(SkyDists)

SpecHeights == InitHeights /\ [][NextHeights]_vars

-----------------------------------------------------------------------------
(* SpecAnchors: names of every anchor rule on parts of one and two staves *)

\* name t belongs to the top staff of part ((t - 1) % Len(parts)) + 1
anchorTrack(t) == firstSysStaffOfPart(((t - 1) % Len(parts)) + 1) * VOICES

InitAnchors ==
    /\ parts \in {<<2, 1>>, <<1, 2>>}
    /\ staffs \in {<<PlainStaff, PlainStaff, TallStaff>>, <<OddStaff, PlainStaff, OddStaff>>}
    /\ style = DefaultStyle
    /\ scoreBrackets = NoBrackets(nstaves)
    /\ measures = <<PlainMeasure(3, "MEASURE")>>
    /\ elements = <<>>
    /\ InitSystem
    /\ \E pos \in [1 .. MaxNames -> 0 .. 5] :
          inames = asSeq([t \in 1 .. MaxNames |->
                      [NewName(t, anchorTrack(t)) EXCEPT !.layoutPos = pos[t],
                                                         !.offsetY = 2 * t]])

NextAnchors ==
    \/ running /\ Len(staves) # nstaves /\ AdjustStavesNumber(nstaves)
    \/ \E m \in DOMAIN measures : running /\ inOrder(m) /\ AppendMeasure(m)
    \/ \E t \in DOMAIN inames : lastOp.op \in SetupOps /\ AddName(t)
    \/ \E i \in Idx(staves) : running /\ passes = 0 /\ SetShow(i, FALSE)
    \/ running /\ passes < MaxPassesWide /\ Layout2Step(SkyNone)

SpecAnchors == InitAnchors /\ [][NextAnchors]_vars

-----------------------------------------------------------------------------
(* SpecOwner: names are added and removed while staff records come and go *)

InitOwner ==
    /\ parts = <<2, 1>>
    /\ staffs = <<PlainStaff, PlainStaff, TallStaff>>
    /\ style = DefaultStyle
    /\ scoreBrackets = NoBrackets(3)
    /\ measures = <<PlainMeasure(3, "MEASURE")>>
    /\ elements = <<>>
    /\ InitSystem
    /\ inames = asSeq([t \in 1 .. MaxNames |-> NewName(t, ((t - 1) % 2) * 2 * VOICES)])

\* the position insertStaff(idx) guesses stays within the guesses of
\* adjustStavesNumber(nstaves)
guessInRange(idx) ==
    IF idx = 0 THEN TRUE
    ELSE sysStaffY(At(staves, idx - 1)) + 6 * spatium <= 6 * spatium * (nstaves - 1)

\* the staff records are in the order in which they were made
asMade == \A k \in 1 .. Len(staves) : staves[k].id = k

\* the number of entries of all name lists
heldNames == SumTo(asSeq([k \in 1 .. Len(staves) |-> Len(staves[k].instrumentNames)]),
                   Len(staves))

\* the score gains or loses a staff, and the system follows with insertStaff or
\* removeStaff: it has nstaves or nstaves - 1 staff records
NextOwner ==
    \/ \E n \in {nstaves - 1, nstaves} : lastOp.op = "System" /\ AdjustStavesNumber(n)
    \/ \E idx \in 0 .. Len(staves) :
          Len(staves) = nstaves - 1 /\ passes = 0 /\ guessInRange(idx) /\ InsertStaff(idx)
    \/ \E idx \in Idx(staves) : Len(staves) = nstaves /\ passes = 0 /\ asMade /\ RemoveStaff(idx)
    \/ \E m \in DOMAIN measures : inOrder(m) /\ AppendMeasure(m)
    \/ \E t \in DOMAIN inames : heldNames < MaxNames /\ AddName(t)
    \/ \E t \in DOMAIN inames : RemoveName(t)
    \/ \E i \in Idx(staves) : passes = 0 /\ lastOp.op # "setShow" /\ SetShow(i, FALSE)
    \/ Len(staves) = nstaves /\ passes < MaxPassesWide /\ Layout2Step(SkyNone)

SpecOwner == InitOwner /\ [][NextOwner]_vars

-----------------------------------------------------------------------------
(* SpecShift: the score gains a staff while the system holds names, and the
   names are set afterwards, on scores that show or suppress them *)

InitShift ==
    /\ parts = <<2, 1>>
    /\ staffs = <<PlainStaff, PlainStaff, TallStaff>>
    /\ style \in {DefaultStyle, [DefaultStyle EXCEPT !.showInstrumentNames = FALSE]}
    /\ scoreBrackets = NoBrackets(3)
    /\ measures = <<PlainMeasure(3, "MEASURE")>>
    /\ inames = NamePool
    /\ elements = <<>>
    /\ InitSystem

NextShift ==
    \/ lastOp.op = "System" /\ AdjustStavesNumber(nstaves - 1)
    \/ \E t \in DOMAIN inames :
          Len(staves) = nstaves - 1 /\ heldNames < MaxNames /\ AddName(t)
    \/ \E idx \in 0 .. Len(staves) :
          Len(staves) = nstaves - 1 /\ guessInRange(idx) /\ InsertStaff(idx)
    \/ \E longName \in BOOLEAN : \E cnt \in [1 .. Len(parts) -> 0 .. MaxNames] :
           /\ lastOp.op # "setInstrumentNames"
           /\ SetInstrumentNames(longName, scoreNames(longName, cnt))

SpecShift == InitShift /\ [][NextShift]_vars

-----------------------------------------------------------------------------
(* SpecSearch: drag targets on stacked systems, some staves hidden *)

\* the positions asked for, in system coordinates, and the height of the page
SearchYs == ((-2) .. 44) \cup {50, 51, 60, 61}

PageHeight == 60

\* the spacing factors asked for: 0, 1/4, 1/2 and 1
SearchNums == {0, 1, 2, FactorDen}

InitSearch ==
    /\ parts = <<2, 1>>
    /\ staffs \in {<<PlainStaff, PlainStaff, PlainStaff>>, <<OneLineStaff, PlainStaff, TallStaff>>,
                   <<PlainStaff, HiddenStaff, PlainStaff>>}
    /\ style = DefaultStyle
    /\ scoreBrackets = NoBrackets(3)
    /\ measures = <<PlainMeasure(3, "MEASURE")>>
    /\ inames = <<>>
    /\ elements = <<>>
    /\ InitSystem

NextSearch ==
    \/ Len(staves) # nstaves /\ AdjustStavesNumber(nstaves)
    \/ \E m \in DOMAIN measures : inOrder(m) /\ AppendMeasure(m)
    \/ \E i \in Idx(staves) : passes = 0 /\ lastOp.op # "setShow" /\ SetShow(i, FALSE)
    \/ passes < MaxPassesWide /\ Layout2Step(SkyNone)
    \/ \E y \in SearchYs : \E preferredStaff \in (-1) .. (nstaves - 1) :
         \E num \in SearchNums : \E posY \in SystemYs :
            passes >= 1 /\ lastOp.op # "searchStaff"
            /\ SearchStaff(y, preferredStaff, num, PageHeight, posY)

SpecSearch == InitSearch /\ [][NextSearch]_vars

-----------------------------------------------------------------------------
(* Properties of the staff stacker *)

\* the state right after a layout2 pass that stacked at least one staff
Stacked == lastOp.op = "layout2" /\ vbox = 0 /\ visibleStaves(staves) # <<>>

\* the adjacent visible pairs <<upper, lower>>
visiblePairs ==
    LET vs == visibleStaves(staves) IN {<<vs[k], vs[k + 1]>> : k \in 1 .. (Len(vs) - 1)}

\* the Y advance from the upper to the lower staff of a pair
advance(p) == sysStaffY(At(staves, p[2])) - sysStaffY(At(staves, p[1]))

\* the gap between the upper staff's box bottom and the lower staff's box top
boxGap(p) == top(At(staves, p[2]).bbox) - bottom(At(staves, p[1]).bbox)

\* the positions of ml that hold a measure with a FIXED down-spacer on staff si
fixedMeasures(si) ==
    {k \in 1 .. Len(ml) : isMeasure(ml[k]) /\ vspacerDown(ml[k], si).type = "FIXED"}

hasFixedDown(si) == fixedMeasures(si) # {}

firstFixedGap(si) ==
    LET k == CHOOSE j \in fixedMeasures(si) : \A i \in fixedMeasures(si) : j <= i
    IN vspacerDown(ml[k], si).gap

multiLine(i) == At(staffs, i).lines # 1

\* C1 as stated: after layout2 every adjacent visible pair has a box gap of at
\* least minVerticalDistance, whatever spacers, user distances and skylines.
C1_Original ==
    Stacked => \A p \in visiblePairs : boxGap(p) >= style.minVerticalDistance

\* C1 as amended: for every adjacent visible pair whose upper staff carries no
\* FIXED down-spacer, the Y advance is at least the pair's skyline distance plus
\* minVerticalDistance; so the box gap is at least minVerticalDistance when both
\* staves are multi-line and the skyline distance is at least the upper height.
C1_MinDistance ==
    Stacked =>
        \A p \in visiblePairs :
            ~hasFixedDown(p[1]) =>
                /\ advance(p) >= lastOp.sky[p[1]] + style.minVerticalDistance
                /\ (multiLine(p[1]) /\ multiLine(p[2])
                    /\ lastOp.sky[p[1]] >= At(staffs, p[1]).height)
                   => boxGap(p) >= style.minVerticalDistance

\* a pair without FIXED spacer whose distance the skyline term decides
C1_Witness ==
    /\ Stacked
    /\ \E p \in visiblePairs :
          /\ ~hasFixedDown(p[1])
          /\ multiLine(p[1]) /\ multiLine(p[2])
          /\ lastOp.sky[p[1]] >= At(staffs, p[1]).height
          /\ advance(p) = lastOp.sky[p[1]] + style.minVerticalDistance

\* C2: with a FIXED down-spacer on the upper staff of a pair, the Y advance is
\* exactly the upper staff's height plus the gap of the first FIXED spacer in
\* measure order; nothing else has an effect on it.
C2_FixedSpacer ==
    Stacked =>
        \A p \in visiblePairs :
            hasFixedDown(p[1]) =>
                advance(p) = At(staffs, p[1]).height + firstFixedGap(p[1])

\* two FIXED spacers with different gaps, an earlier elastic one or a skyline
\* that asks for more than the FIXED gap gives
C2_Witness ==
    /\ Stacked
    /\ \E p \in visiblePairs :
          /\ hasFixedDown(p[1])
          /\ lastOp.sky[p[1]] + style.minVerticalDistance > advance(p)
          /\ \/ \E k \in fixedMeasures(p[1]) : vspacerDown(ml[k], p[1]).gap # firstFixedGap(p[1])
             \/ \E k \in 1 .. Len(ml) :
                   /\ \A j \in fixedMeasures(p[1]) : k < j
                   /\ isMeasure(ml[k])
                   /\ vspacerDown(ml[k], p[1]).type = "DOWN"
                   /\ vspacerDown(ml[k], p[1]).gap > firstFixedGap(p[1])

\* C3 as stated: restoreLayout2 right after layout2 leaves every staff box, the
\* system height and every measure box of the system as layout2 left them.
C3_Original ==
    [][(lastOp.op = "layout2" /\ lastOp'.op = "restoreLayout2") =>
          /\ \A k \in 1 .. Len(staves) : staves'[k].bbox = staves[k].bbox
          /\ sbbox'.h = sbbox.h
          /\ systemHeight' = systemHeight
          /\ \A k \in 1 .. Len(ml) : measures'[ml[k]].bbox = measures[ml[k]].bbox]_vars

\* the record of a staff that reached the skyline step of the pass: an upper
\* staff of an adjacent visible pair, without FIXED down-spacer, no frame system
reachesSkyline(i) == vbox = 0 /\ i \in upperStaves(staves) /\ ~hasFixedDown(i)

\* C4: continuousDist of a staff record never decreases; in continuous view a
\* pass that reaches the skyline step sets it to the maximum of its previous
\* value and the current skyline distance and spaces the pair by at least that
\* maximum plus minVerticalDistance; any other step leaves it unchanged.
C4_ContinuousDist ==
    [][\A k \in 1 .. Len(staves) :
          (k <= Len(staves') /\ staves'[k].id = staves[k].id) =>
              LET before == staves[k].continuousDist
                  after == staves'[k].continuousDist
              IN /\ after >= before
                 /\ IF lastOp'.op = "layout2" /\ style.lineMode /\ reachesSkyline(k - 1)
                    THEN /\ after = qMax(before, lastOp'.sky[k - 1])
                         /\ sysStaffY(At(staves', nextVisibleStaff(k - 1))) - sysStaffY(staves'[k])
                               >= after + style.minVerticalDistance
                    ELSE after = before]_vars

\* a pass in continuous view whose skyline distance is below the remembered one
C4_Witness ==
    /\ Stacked
    /\ style.lineMode
    /\ passes >= 2
    /\ \E p \in visiblePairs :
          /\ ~hasFixedDown(p[1])
          /\ At(staves, p[1]).continuousDist > lastOp.sky[p[1]]
          /\ At(staves, p[1]).continuousDist \in SkyDists
          /\ advance(p) = At(staves, p[1]).continuousDist + style.minVerticalDistance

\* the case of C8: exactly two visible staves, multi-line and of equal height,
\* no spacer on any measure of the system, no user distance on the lower staff
\* and a skyline distance (as layout2 uses it) that does not decide the distance
noSpacers ==
    \A k \in 1 .. Len(ml) : \A i \in Idx(staves) :
        vspacerDown(ml[k], i) = NoSpacer /\ vspacerUp(ml[k], i) = NoSpacer

usedSkyline(i) ==
    IF style.lineMode THEN At(staves, i).continuousDist ELSE lastOp.sky[i]

C8_Case(gap) ==
    /\ Stacked
    /\ Len(visibleStaves(staves)) = 2
    /\ \A p \in visiblePairs :
          /\ multiLine(p[1]) /\ multiLine(p[2])
          /\ At(staffs, p[1]).height = At(staffs, p[2]).height
          /\ At(staffs, p[2]).userDist = 0
          /\ usedSkyline(p[1]) + style.minVerticalDistance <= At(staffs, p[1]).height + gap
    /\ noSpacers

C8_Holds(p, gap) ==
    /\ boxGap(p) = gap
    /\ systemHeight = At(staffs, p[1]).height + gap + At(staffs, p[2]).height
    /\ sbbox.h = systemHeight

\* C8 as stated: the gap is akkoladeDistance scaled by the staff magnification
\* for staves of one part, staffDistance otherwise, and the system height is
\* H + gap + H.
C8_Original ==
    \A p \in visiblePairs :
        LET gap == IF partOf(p[1]) = partOf(p[2])
                   THEN akkoladeDistance * At(staffs, p[1]).mag
                   ELSE staffDistance
        IN C8_Case(gap) => C8_Holds(p, gap)

\* C8 as amended: the magnification scales akkoladeDistance only when the
\* system holds a measure; a system of frames only uses akkoladeDistance as is.
C8_BaseGap ==
    \A p \in visiblePairs :
        LET mag == IF firstMeasure # 0 THEN At(staffs, p[1]).mag ELSE 1
            gap == IF partOf(p[1]) = partOf(p[2]) THEN akkoladeDistance * mag ELSE staffDistance
        IN C8_Case(gap) => C8_Holds(p, gap)

\* two staves of one part, the upper one magnified, on a system with a measure
C8_Witness ==
    \E p \in visiblePairs :
        /\ C8_Case(akkoladeDistance * At(staffs, p[1]).mag)
        /\ partOf(p[1]) = partOf(p[2])
        /\ At(staffs, p[1]).mag # 1
        /\ firstMeasure # 0
        /\ boxGap(p) = akkoladeDistance * At(staffs, p[1]).mag

-----------------------------------------------------------------------------
(* Brackets after System::layoutBrackets *)

\* the bracket items of the score that ask for a bracket
scoreBracketItems ==
    {bi \in UNION {{bracketItems(i)[k] : k \in 1 .. Len(bracketItems(i))} : i \in Idx(staffs)} :
        bi.type # "NO_BRACKET"}

\* the positions in _brackets of the Brackets made for item bi
bracketsOf(bi) == {k \in 1 .. Len(brackets) : brackets[k].bi = bi}

\* the staves of the declared range of bi, clamped to the system, whose record
\* is shown
shownIn(bi) ==
    {i \in bi.staff .. (bi.staff + bi.span - 1) : i < Len(staves) /\ At(staves, i).show}

lowest(S) == CHOOSE i \in S : \A j \in S : i <= j

highest(S) == CHOOSE i \in S : \A j \in S : j <= i

\* C5 as stated: after layoutBrackets an item of declared span 1 has no Bracket
\* unless alwaysShowBracketsWhenEmptyStavesAreHidden is set, and with the flag
\* set it has one whenever its staff is shown.
C5_Original ==
    lastOp.op = "layoutBrackets" =>
        \A bi \in scoreBracketItems :
            bi.span = 1 =>
                IF style.alwaysShowBracketsWhenEmptyStavesAreHidden
                THEN At(staves, bi.staff).show => bracketsOf(bi) # {}
                ELSE bracketsOf(bi) = {}

\* C5: after layoutBrackets an item of declared span 1 has exactly one Bracket
\* when its staff record is shown, with or without the style flag, and none
\* when its staff record is hidden; and layout2 gives the Bracket of such an
\* item the top and the height of its staff's box while the staff is shown,
\* and height 0 while it is hidden.
C5_DeclaredSpanOne ==
    /\ lastOp.op = "layoutBrackets" =>
           \A bi \in scoreBracketItems :
               bi.span = 1 =>
                   IF At(staves, bi.staff).show
                   THEN Cardinality(bracketsOf(bi)) = 1
                   ELSE bracketsOf(bi) = {}
    /\ Stacked =>
           \A k \in 1 .. Len(brackets) :
               LET b == brackets[k]
                   box == At(staves, b.bi.staff).bbox
               IN b.bi.span = 1 =>
                     IF At(staves, b.bi.staff).show
                     THEN b.y = top(box) /\ b.h = box.h /\ b.h > 0
                     ELSE b.h = 0

C5_Witness ==
    /\ Stacked
    /\ ~style.alwaysShowBracketsWhenEmptyStavesAreHidden
    /\ \E bi \in scoreBracketItems :
          /\ bi.span = 1
          /\ At(staves, bi.staff).show
          /\ \E k \in bracketsOf(bi) : brackets[k].h > 0

\* C6: when layoutBrackets runs with a Bracket of an item of declared span
\* S >= 3 in the bracket set, the first and last staff of the item's range shown
\* and exactly one interior staff hidden, and the Bracket's track and measure
\* are those the pass looks for, the pass keeps that same Bracket instance for
\* the item, spanning the first to the last staff of the declared range.
C6_Reused ==
    [][lastOp'.op = "layoutBrackets" =>
          \A k \in 1 .. Len(brackets) :
              LET b == brackets[k]
                  f == b.bi.staff
                  l == b.bi.staff + b.bi.span - 1
              IN (/\ b.bi \in scoreBracketItems
                  /\ b.bi.span >= 3
                  /\ l < Len(staves)
                  /\ At(staves, f).show
                  /\ At(staves, l).show
                  /\ Cardinality({i \in (f + 1) .. (l - 1) : ~At(staves, i).show}) = 1
                  /\ b.track = f * VOICES
                  /\ b.measure = firstMeasure)
                 => \E j \in 1 .. Len(brackets') :
                        /\ brackets'[j].id = b.id
                        /\ brackets'[j].bi = b.bi
                        /\ brackets'[j].firstStaff = f
                        /\ brackets'[j].lastStaff = l]_vars

C6_Witness ==
    /\ lastOp.op = "layoutBrackets"
    /\ \E k \in 1 .. Len(brackets) :
          LET b == brackets[k] IN
          /\ b.bi.span >= 3
          /\ b.id \in lastOp.reused
          /\ b.firstStaff = b.bi.staff
          /\ b.lastStaff = b.bi.staff + b.bi.span - 1
          /\ \E i \in (b.firstStaff + 1) .. (b.lastStaff - 1) : ~At(staves, i).show

\* C9: after layoutBrackets every Bracket of the bracket set belongs to an item
\* whose declared range, clamped to the system, has a shown staff; from the
\* first to the last shown staff of that range there are at least 2 staves, or
\* exactly 1 and then the declared span is 1 or
\* alwaysShowBracketsWhenEmptyStavesAreHidden is set; and the Bracket spans
\* exactly that trimmed range.
C9_OnlyIfShown ==
    lastOp.op = "layoutBrackets" =>
        \A k \in 1 .. Len(brackets) :
            LET b == brackets[k]
                V == shownIn(b.bi)
            IN /\ b.bi \in scoreBracketItems
               /\ V # {}
               /\ LET cover == highest(V) - lowest(V) + 1
                  IN \/ cover >= 2
                     \/ cover = 1 /\ (b.bi.span = cover
                                        \/ style.alwaysShowBracketsWhenEmptyStavesAreHidden)
               /\ b.firstStaff = lowest(V)
               /\ b.lastStaff = highest(V)

C9_Witness ==
    /\ lastOp.op = "layoutBrackets"
    /\ \E bi \in scoreBracketItems :
          /\ bi.span >= 2
          /\ Cardinality(shownIn(bi)) = 1
          /\ IF style.alwaysShowBracketsWhenEmptyStavesAreHidden
             THEN \E k \in bracketsOf(bi) : brackets[k].firstStaff > bi.staff
             ELSE bracketsOf(bi) = {}
    /\ \E bi \in scoreBracketItems : shownIn(bi) = {}

\* whether the staff ranges of two Brackets intersect
rangesIntersect(b1, b2) ==
    b1.firstStaff <= b2.lastStaff /\ b2.firstStaff <= b1.lastStaff

\* C10 as stated: after setBracketsXPosition, of two Brackets in different
\* columns whose staff ranges intersect, the one in the higher column has its
\* right edge at or left of the other's left edge minus bracketDistance.
C10_Original ==
    lastOp.op = "setBracketsXPosition" =>
        \A k1, k2 \in 1 .. Len(brackets) :
            LET b1 == brackets[k1]
                b2 == brackets[k2]
            IN (column(b1) > column(b2) /\ rangesIntersect(b1, b2))
               => b1.x + width(b1) <= b2.x - style.bracketDistance

-----------------------------------------------------------------------------
(* Instrument names of a hidden top staff *)

\* the shown staff records of the part at position p
shownOfPart(p) ==
    {i \in SumTo(parts, p - 1) .. (SumTo(parts, p) - 1) : At(staves, i).show}

\* C7: when layout2 runs layoutInstrumentNames and the top staff record T of a
\* part is hidden while V is the part's first shown record, then afterwards
\* the name list of T is empty, the name list of V is its former list followed
\* by the former list of T, in order, and every moved name has
\* track = V * VOICES, its staff back-reference on V, and the text and name
\* type it had.
C7_NamesMove ==
    [][(lastOp'.op = "layout2" /\ vbox = 0 /\ visibleStaves(staves) # <<>>) =>
          \A p \in 1 .. Len(parts) :
              LET T == SumTo(parts, p - 1)
                  moved == At(staves, T).instrumentNames
              IN (~At(staves, T).show /\ shownOfPart(p) # {}) =>
                    LET V == lowest(shownOfPart(p))
                    IN /\ At(staves', T).instrumentNames = <<>>
                       /\ At(staves', V).instrumentNames
                              = At(staves, V).instrumentNames \o moved
                       /\ \A k \in 1 .. Len(moved) :
                             /\ inames'[moved[k]].track = V * VOICES
                             /\ inames'[moved[k]].sysStaff = At(staves, V).id
                             /\ inames'[moved[k]].text = inames[moved[k]].text
                             /\ inames'[moved[k]].nameType = inames[moved[k]].nameType]_vars

\* both names were attached to the top staff of the second part and are found,
\* after layout2, on the part's second staff, which no name was attached to
C7_Witness ==
    /\ lastOp.op = "layout2"
    /\ parts = <<1, 2>>
    /\ ~At(staves, 1).show
    /\ At(staves, 2).show
    /\ At(staves, 1).instrumentNames = <<>>
    /\ Len(At(staves, 2).instrumentNames) >= 2
    /\ \A k \in 1 .. Len(At(staves, 2).instrumentNames) :
          inames[At(staves, 2).instrumentNames[k]].track = 2 * VOICES

-----------------------------------------------------------------------------
(* The distance between two adjacent visible staves *)

\* the measures of the system (frames have no spacers)
measuresOfSystem == {k \in 1 .. Len(ml) : isMeasure(ml[k])}

\* upper staff height + gap, for every elastic down-spacer on the upper staff
elasticDownTerms(p) ==
    {At(staffs, p[1]).height + vspacerDown(ml[k], p[1]).gap :
        k \in {j \in measuresOfSystem : vspacerDown(ml[j], p[1]).type \notin {"NONE", "FIXED"}}}

\* upper staff height + gap, for every up-spacer on the lower staff
upTerms(p) ==
    {At(staffs, p[1]).height + vspacerUp(ml[k], p[2]).gap :
        k \in {j \in measuresOfSystem : vspacerUp(ml[j], p[2]).type # "NONE"}}

\* the base distance of a pair as layout2 adds it up: the upper staff's height
\* plus akkoladeDistance, scaled by the upper staff's magnification when the
\* system has a measure, within a part, and staffDistance between parts
pairBase(p) ==
    At(staffs, p[1]).height
    + (IF partOf(p[1]) = partOf(p[2])
       THEN akkoladeDistance * (IF firstMeasure # 0 THEN At(staffs, p[1]).mag ELSE 1)
       ELSE staffDistance)

\* C11: after layout2, for every adjacent visible pair without FIXED
\* down-spacer on the upper staff, the Y advance is the maximum of the base
\* distance plus the lower staff's user distance, the upper height plus gap of
\* every elastic down-spacer of the upper staff and of every up-spacer of the
\* lower staff in the measures of the system, and the skyline distance (the
\* remembered one in continuous view) plus minVerticalDistance.
C11_MaxOfTerms ==
    Stacked =>
        \A p \in visiblePairs :
            ~hasFixedDown(p[1]) =>
                advance(p) = highest({pairBase(p) + At(staffs, p[2]).userDist}
                                     \cup elasticDownTerms(p)
                                     \cup upTerms(p)
                                     \cup {usedSkyline(p[1]) + style.minVerticalDistance})

\* continuous view, second pass: one pair spaced by an elastic down-spacer, the
\* other by a skyline distance remembered from the pass before
C11_Witness ==
    /\ Stacked
    /\ style.lineMode
    /\ \E p \in visiblePairs :
          /\ elasticDownTerms(p) # {}
          /\ advance(p) = highest(elasticDownTerms(p))
          /\ advance(p) > pairBase(p) + At(staffs, p[2]).userDist
          /\ advance(p) > usedSkyline(p[1]) + style.minVerticalDistance
    /\ \E p \in visiblePairs :
          /\ upTerms(p) # {}
          /\ usedSkyline(p[1]) > lastOp.sky[p[1]]
          /\ advance(p) = usedSkyline(p[1]) + style.minVerticalDistance
          /\ advance(p) > pairBase(p) + At(staffs, p[2]).userDist
          /\ advance(p) > highest(upTerms(p))

\* a pair whose advance the base distance decides: no FIXED or elastic
\* down-spacer on the upper staff, no up-spacer on the lower staff, and a
\* skyline term that stays below the upper staff's height
baseDecides(p) ==
    /\ ~hasFixedDown(p[1])
    /\ elasticDownTerms(p) = {}
    /\ upTerms(p) = {}
    /\ usedSkyline(p[1]) + style.minVerticalDistance <= At(staffs, p[1]).height

\* C12 as stated: the base distance (the advance less the lower staff's user
\* distance, where the base distance decides) is the height of the taller of
\* the two staves plus akkoladeDistance within a part and staffDistance between
\* parts, both being minStaffSpread under vertical spread.
C12_Original ==
    Stacked =>
        \A p \in visiblePairs :
            baseDecides(p) =>
                advance(p) - At(staffs, p[2]).userDist
                    = qMax(At(staffs, p[1]).height, At(staffs, p[2]).height)
                      + (IF partOf(p[1]) = partOf(p[2]) THEN akkoladeDistance ELSE staffDistance)

\* C12: the base distance is the height of the upper staff of the pair plus,
\* within a part, akkoladeDistance times the upper staff's magnification (times
\* 1 when the system holds no measure) and, between parts, staffDistance; both
\* constants are minStaffSpread under vertical spread.
C12_UpperHeight ==
    Stacked =>
        \A p \in visiblePairs :
            baseDecides(p) =>
                advance(p) - At(staffs, p[2]).userDist = pairBase(p)

\* a taller staff below a smaller one of the same part, vertical spread enabled
C12_Witness ==
    /\ Stacked
    /\ style.enableVerticalSpread
    /\ \E p \in visiblePairs :
          /\ baseDecides(p)
          /\ partOf(p[1]) = partOf(p[2])
          /\ At(staffs, p[2]).height > At(staffs, p[1]).height
          /\ advance(p) - At(staffs, p[2]).userDist
                = At(staffs, p[1]).height + style.minStaffSpread * At(staffs, p[1]).mag

-----------------------------------------------------------------------------
(* layoutSystem; layout2; layoutSystem; restoreLayout2 *)

\* C13 as stated: when restoreLayout2 follows a layoutSystem that followed
\* layout2 (itself run after layoutSystem) on a system that is no frame, every
\* staff box has the y and the height layout2 gave it, hidden staves still have
\* an empty box, and the system height and the height of every measure box are
\* those layout2 left.
C13_Original ==
    [][(/\ lastOp.op = "layoutSystem"
        /\ lastOp.prev = "layout2"
        /\ lastOp'.op = "restoreLayout2"
        /\ vbox = 0) =>
          /\ \A k \in 1 .. Len(staves) :
                /\ staves'[k].bbox.y = lastOp.boxes[k].y
                /\ staves'[k].bbox.h = lastOp.boxes[k].h
          /\ systemHeight' = systemHeight
          /\ sbbox'.h = sbbox.h
          /\ \A k \in 1 .. Len(ml) : measures'[ml[k]].bbox.h = measures[ml[k]].bbox.h]_vars

-----------------------------------------------------------------------------
(* Removing a measure from a system *)

\* seq without its entries equal to m, the others in their order
RECURSIVE remaining(_, _)
remaining(seq, m) ==
    IF seq = <<>> THEN <<>>
    ELSE IF Head(seq) = m THEN remaining(Tail(seq), m)
    ELSE <<Head(seq)>> \o remaining(Tail(seq), m)

\* the measure base m after the step: it still exists, and only its parent
\* may have changed, cleared exactly when it pointed to this system
parentCleared(m) ==
    /\ DOMAIN measures' = DOMAIN measures
    /\ \A k \in DOMAIN measures : k # m => measures'[k] = measures[k]
    /\ measures'[m] = [measures[m] EXCEPT !.system = measures'[m].system]
    /\ measures'[m].system = IF measures[m].system = "this" THEN "none" ELSE measures[m].system

\* C14: removeMeasure(mb) and removeLastMeasure take the measure out of this
\* system's sequence and keep the order of the others; the measure base is not
\* destroyed; its parent is cleared if and only if it pointed to this system,
\* so a measure that another system has adopted stays with that system and
\* in that system's sequence.
C14_RemoveKeepsOthers ==
    [][/\ lastOp'.op = "removeMeasure" =>
            /\ ml' = remaining(ml, lastOp'.m)
            /\ parentCleared(lastOp'.m)
            /\ otherMl' = otherMl
       /\ (lastOp'.op = "removeLastMeasure" /\ ml # <<>>) =>
            /\ ml' \o <<ml[Len(ml)]>> = ml
            /\ parentCleared(ml[Len(ml)])
            /\ otherMl' = otherMl
       /\ (lastOp'.op = "removeLastMeasure" /\ ml = <<>>) =>
            UNCHANGED <<ml, measures, otherMl>>]_vars

\* S.appendMeasure(m); T.appendMeasure(m); S.removeMeasure(m) has run: m was in
\* this system's sequence, is out of it now, and is still the other system's
C14_Witness ==
    /\ lastOp.op = "removeMeasure"
    /\ lastOp.had
    /\ \A k \in 1 .. Len(ml) : ml[k] # lastOp.m
    /\ ml # <<>>
    /\ measures[lastOp.m].system = "other"
    /\ \E k \in 1 .. Len(otherMl) : otherMl[k] = lastOp.m

-----------------------------------------------------------------------------
(* The number of staff records *)

\* C15: after adjustStavesNumber(n) on k staff records the system holds
\* exactly n records; the first min(k, n) are the records it held, in their
\* order; a record inserted at index 0 has Y = 0, a record inserted at
\* idx > 0 has Y = (Y of the record at idx - 1) + 6 spatium.
C15_ExactlyN ==
    [][lastOp'.op = "adjustStavesNumber" =>
        LET n == lastOp'.n
            k == Len(staves)
            kept == IF k < n THEN k ELSE n
        IN /\ Len(staves') = n
           /\ \A i \in 1 .. kept : staves'[i] = staves[i]
           /\ \A idx \in k .. (n - 1) :
                sysStaffY(At(staves', idx)) =
                    IF idx = 0 THEN 0
                    ELSE sysStaffY(At(staves', idx - 1)) + 6 * spatium]_vars

\* records were appended below a stacked record whose y() differs from the
\* top of its box
C15_Witness ==
    /\ lastOp.op = "adjustStavesNumber"
    /\ passes >= 1
    /\ \E i \in 1 .. (Len(staves) - 1) :
         /\ staves[i].yOff # 0
         /\ staves[i].bbox.h # 0
         /\ staves[i + 1].bbox \in {setY(RectF, sysStaffY(staves[i]) + 6 * spatium, keepsBottom) :
                                    keepsBottom \in BOOLEAN}

-----------------------------------------------------------------------------
(* Setting the instrument names *)

\* the staff records that hold a name element
holders == {i \in Idx(staves) : At(staves, i).instrumentNames # <<>>}

\* C16: after setInstrumentNames on a non-frame system, no staff record
\* holds a name when the names are suppressed (the score disables them, or
\* hideInstrumentNameIfOneInstrument is set and the score has one part); when
\* they are not suppressed, only the records of shown top staves of parts
\* hold names.
C16_Original ==
    (lastOp.op = "setInstrumentNames" /\ vbox = 0) =>
        /\ namesSuppressed => holders = {}
        /\ ~namesSuppressed => \A i \in holders : isTop(i) /\ At(staffs, i).show

-----------------------------------------------------------------------------
(* layout2 on a system without a visible staff *)

\* no index has both the score staff and the staff record shown
nothingShown == \A i \in Idx(staves) : ~(At(staffs, i).show /\ At(staves, i).show)

\* C17: layout2 on a non-frame system in which no staff is visible changes
\* neither the stored system height nor the system's own height, no
\* measure's box, no bracket's position and no instrument name's position.
C17_NothingVisible ==
    [][(lastOp'.op = "layout2" /\ vbox = 0 /\ nothingShown) =>
          /\ systemHeight' = systemHeight
          /\ sbbox' = sbbox
          /\ \A m \in DOMAIN measures : measures'[m].bbox = measures[m].bbox
          /\ brackets' = brackets
          /\ inames' = inames]_vars

\* layout2 has run on a system that was laid out before, has a bracket and
\* an attached name, and whose staff records are all hidden
C17_Witness ==
    /\ lastOp.op = "layout2"
    /\ vbox = 0
    /\ staves # <<>>
    /\ nothingShown
    /\ passes >= 2
    /\ systemHeight > 0
    /\ brackets # <<>>
    /\ attachedNames(staves) # {}

-----------------------------------------------------------------------------
(* add and remove of an element kind the dispatch has no case for *)

\* C18 as stated: add(el) and remove(el) with a kind the dispatch does not
\* handle are no-ops: no staff name list, no bracket, no spanner segment and
\* no divider slot changes, and the element, its parent reference included,
\* is the same after the call as before it.
C18_Original ==
    [][((lastOp'.op = "addElement" /\ ~addHandles(elements[lastOp'.el].kind))
          \/ (lastOp'.op = "removeElement" /\ ~removeHandles(elements[lastOp'.el].kind))) =>
          /\ staves' = staves
          /\ brackets' = brackets
          /\ spannerSegments' = spannerSegments
          /\ systemDividerLeft' = systemDividerLeft
          /\ systemDividerRight' = systemDividerRight
          /\ elements'[lastOp'.el] = elements[lastOp'.el]]_vars

-----------------------------------------------------------------------------
(* The Bracket instances across a bracket pass *)

\* the step is a bracket pass
bracketPass == lastOp'.op \in {"layoutBrackets", "addBrackets"}

\* the positions in brs of the instance id
placesOf(brs, id) == {k \in 1 .. Len(brs) : brs[k].id = id}

\* the instance at position j of the set before the pass is in the set after
\* it once, for the same track, column, type and measure, and was matched
reusedOnce(j) ==
    LET b == brackets[j]
    IN /\ b.id \in lastOp'.reused
       /\ \E k \in 1 .. Len(brackets') :
            /\ placesOf(brackets', b.id) = {k}
            /\ brackets'[k].track = b.track
            /\ column(brackets'[k]) = column(b)
            /\ bracketType(brackets'[k]) = bracketType(b)
            /\ brackets'[k].measure = b.measure

\* no instance is in the set after the pass twice
noneTwice == \A k \in 1 .. Len(brackets') : placesOf(brackets', brackets'[k].id) = {k}

\* C19 as stated: after layoutBrackets and after addBrackets, every instance
\* of the set before the pass is reused for an item of its track, column,
\* type and measure, or is out of the set; none survives unmatched and none
\* is in the set twice.
C19_Original ==
    [][bracketPass =>
          /\ \A j \in 1 .. Len(brackets) :
                reusedOnce(j) \/ placesOf(brackets', brackets[j].id) = {}
          /\ noneTwice]_vars

\* C19 amended: that holds for layoutBrackets; addBrackets discards nothing:
\* an instance it does not match stays in the set, once, as it was, behind
\* the brackets of the pass; no instance is in the set twice.
C19_AddBracketsKeeps ==
    [][bracketPass =>
          /\ \A j \in 1 .. Len(brackets) :
                \/ reusedOnce(j)
                \/ /\ lastOp'.op = "layoutBrackets"
                   /\ placesOf(brackets', brackets[j].id) = {}
                \/ /\ lastOp'.op = "addBrackets"
                   /\ brackets[j].id \notin lastOp'.reused
                   /\ \E k \in 1 .. Len(brackets') :
                         /\ placesOf(brackets', brackets[j].id) = {k}
                         /\ brackets'[k] = brackets[j]
                         /\ \A i \in 1 .. (k - 1) :
                               brackets'[i].measure = lastOp'.measure
                               \/ brackets'[i].id \notin lastOp'.reused
          /\ noneTwice]_vars

\* addBrackets has run for the measure behind the frame on a system that holds
\* the brackets in front of the system: one was made or reused for the
\* measure, the others are still there
C19_Witness ==
    /\ lastOp.op = "addBrackets"
    /\ lastOp.reused # {}
    /\ \E k \in 1 .. Len(brackets) : brackets[k].measure # lastOp.measure
    /\ \E k \in 1 .. Len(brackets) : brackets[k].measure = lastOp.measure

-----------------------------------------------------------------------------
(* The staff under a pointer position *)

\* the band of staff record i, widened by 2 spatium, contains the position
\* y of the canvas, the system being at posY
inBand(i, posY, y) ==
    /\ top(At(staves, i).bbox) - 2 * spatium <= y - posY
    /\ y - posY < bottom(At(staves, i).bbox) + 2 * spatium

\* C20: y2staff(y) returns the lowest index whose band, the box of the staff
\* record widened by 2 spatium above and below, contains y - systemY, and
\* -1 exactly when no band contains it.
C20_LowestBand ==
    lastOp.op = "y2staff" =>
        LET hits == {i \in Idx(staves) : inBand(i, lastOp.posY, lastOp.y)}
        IN /\ hits = {} <=> lastOp.result = -1
           /\ hits # {} => (lastOp.result \in hits /\ \A i \in hits : lastOp.result <= i)

\* the position asked for lies in the bands of two staves of a stacked system
\* that is not at the top of its page
C20_Witness ==
    /\ lastOp.op = "y2staff"
    /\ passes >= 1
    /\ lastOp.posY # 0
    /\ Cardinality({i \in Idx(staves) : inBand(i, lastOp.posY, lastOp.y)}) >= 2
    /\ lastOp.result >= 0

-----------------------------------------------------------------------------
(* The staff a drag position targets *)

\* the visible staves in order, and the gaps between their boxes
gapsNonNegative ==
    LET vs == visibleStaves(staves)
    IN \A k \in 1 .. Len(vs) - 1 :
         bottom(At(staves, vs[k]).bbox) <= top(At(staves, vs[k + 1]).bbox)

\* the zone of visible staff p when p is preferred: below the bottom of the
\* previous visible staff (and the zone ends of the staves before it), down to
\* the top of the next visible staff, or to the page bottom for the last one
preferredZone(p, y, num, pageBottom) ==
    LET vs == visibleStaves(staves)
        k == CHOOSE j \in 1 .. Len(vs) : vs[j] = p
        box(j) == At(staves, vs[j]).bbox
    IN /\ \A j \in 1 .. k - 2 :
            FactorDen * y > FactorDen * bottom(box(j))
                            + (top(box(j + 1)) - bottom(box(j))) * num
       /\ k > 1 => y > bottom(box(k - 1))
       /\ IF k < Len(vs) THEN y <= top(box(k + 1)) ELSE y <= pageBottom

\* C21: on a laid-out system whose visible staves do not overlap, a position
\* that targets visible staff p with no preference still targets p when p is
\* preferred; and with p preferred the result is p exactly when the position
\* lies between the bottom of the previous visible staff and the top of the
\* next one.
C21_PreferredKeepsZone ==
    (lastOp.op = "searchStaff" /\ passes >= 1 /\ gapsNonNegative) =>
        LET p == lastOp.result
            q == lastOp.preferredStaff
        IN /\ (q = -1 /\ p < nstaves) =>
                searchStaff(staves, lastOp.y, p, lastOp.num, lastOp.pageBottom) = p
           /\ (q # -1 /\ IsVisible(staves, q)) =>
                (p = q <=> preferredZone(q, lastOp.y, lastOp.num, lastOp.pageBottom))

\* a position in the lower part of the gap below a visible staff, which targets
\* the next staff without preference and at a small factor, targets the staff
\* above when that one is preferred
C21_Witness ==
    /\ lastOp.op = "searchStaff"
    /\ passes >= 1
    /\ gapsNonNegative
    /\ lastOp.preferredStaff # -1
    /\ IsVisible(staves, lastOp.preferredStaff)
    /\ lastOp.result = lastOp.preferredStaff
    /\ lastOp.num < FactorDen
    /\ searchStaff(staves, lastOp.y, -1, lastOp.num, lastOp.pageBottom) # lastOp.result

\* C27: whenever the system has a visible staff, searchStaff returns for every
\* y, also below the bottom of the page, the index of a visible staff in
\* [0, nstaves), never nstaves and never a hidden staff.
C27_Original ==
    (lastOp.op = "searchStaff" /\ visibleStaves(staves) # <<>>) =>
        /\ lastOp.result \in 0 .. nstaves - 1
        /\ IsVisible(staves, lastOp.result)

-----------------------------------------------------------------------------
(* The height of the system and of the entries of its measure sequence *)

\* the staff record of the last visible staff
lastVisible(sts) == At(sts, visibleStaves(sts)[Len(visibleStaves(sts))])

\* C22: after layout2 on a non-frame system with a visible staff, the stored
\* and the reported height of the system are the bottom edge of the box of
\* the last visible staff; with that height H every ordinary measure of ml has
\* the box [-spatium, H + spatium], every horizontal frame the box [0, H], and
\* an entry that is neither a measure nor a horizontal nor a text frame is as
\* it was before the pass.
C22_HeightPropagated ==
    [][(lastOp'.op = "layout2" /\ vbox = 0 /\ visibleStaves(staves) # <<>>) =>
         LET H == bottom(lastVisible(staves').bbox)
         IN /\ systemHeight' = H
            /\ sbbox'.h = H
            /\ \A k \in 1 .. Len(ml) :
                 LET old == measures[ml[k]]
                     new == measures'[ml[k]]
                 IN /\ old.kind = "MEASURE" =>
                         (new.bbox.y = -spatium /\ new.bbox.h = H + 2 * spatium)
                    /\ old.kind = "HBOX" => (new.bbox.y = 0 /\ new.bbox.h = H)
                    /\ old.kind \notin {"MEASURE", "HBOX", "TBOX"} => new = old]_vars

\* a second pass, after a staff was hidden, has given a measure, a horizontal
\* frame and an entry of another kind the new height
C22_Witness ==
    /\ lastOp.op = "layout2"
    /\ passes >= 2
    /\ vbox = 0
    /\ Len(visibleStaves(staves)) = 2
    /\ systemHeight > 0
    /\ \E a, b, c \in 1 .. Len(ml) :
         /\ measures[ml[a]].kind = "MEASURE"
         /\ measures[ml[a]].bbox.h = systemHeight + 2 * spatium
         /\ measures[ml[b]].kind = "HBOX"
         /\ measures[ml[b]].bbox.h = systemHeight
         /\ measures[ml[c]].kind = "FBOX"
         /\ measures[ml[c]].bbox = RectF

-----------------------------------------------------------------------------
(* The anchor rules of the instrument names *)

\* the staff indices of part p
staffRange(p) == firstSysStaffOfPart(p) .. (firstSysStaffOfPart(p) + parts[p] - 1)

\* the names layoutInstrumentNames has placed for part p: those of the first
\* shown staff record of the part
placedNames(p) ==
    LET visible == firstVisibleSysStaffOfPart(staves, p)
    IN IF visible < 0 THEN {}
       ELSE {At(staves, visible).instrumentNames[k] :
                k \in 1 .. Len(At(staves, visible).instrumentNames)}

\* the number of staves an anchor rule asks of the part
stavesNeeded(pos) == CASE pos \in {2, 3} -> 2 [] pos \in {4, 5} -> 3 [] OTHER -> 1

\* C23: for a name with anchor rule 2 to 5 on a part with fewer staves than
\* the rule requires, layoutInstrumentNames reads no staff record beyond the
\* end of the staff array and none of another part.  A read beyond the end
\* ends the program inside layout2; a read of another part leaves a layout.
C23_Original ==
    /\ lastOp.op # "abort"
    /\ (lastOp.op = "layout2" /\ vbox = 0 /\ visibleStaves(staves) # <<>>) =>
          \A p \in 1 .. Len(parts) : \A t \in placedNames(p) :
              stavesNeeded(inames[t].layoutPos) > parts[p] =>
                  anchorReads(staves, inames[t].layoutPos, firstVisibleSysStaffOfPart(staves, p),
                              firstSysStaffOfPart(p), parts[p]) \subseteq staffRange(p)

\* the first and the last shown staff record of part p
firstShownOf(p) == At(staves, trimUp(staves, firstSysStaffOfPart(p),
                                     firstSysStaffOfPart(p) + parts[p] - 1))

lastShownOf(p) == At(staves, trimDown(staves, firstSysStaffOfPart(p),
                                      firstSysStaffOfPart(p) + parts[p] - 1))

\* C24: a name with anchor rule 0 on a part with a shown staff record gets,
\* as its y, the midpoint between the top of the first shown staff record of
\* the part and the bottom of the last one, plus its own y offset, whatever
\* the position of the part and whichever staves are hidden.
C24_CenterOnPart ==
    (lastOp.op = "layout2" /\ vbox = 0 /\ visibleStaves(staves) # <<>>) =>
        \A p \in 1 .. Len(parts) : \A t \in placedNames(p) :
            inames[t].layoutPos = 0 =>
                inames[t].y = halves(2 * top(firstShownOf(p).bbox)
                                     + (bottom(lastShownOf(p).bbox) - top(firstShownOf(p).bbox))
                                     + 2 * inames[t].offsetY)

\* a part of two staves that is not the first part, its last staff hidden,
\* holds a placed name centred on the part
C24_Witness ==
    /\ lastOp.op = "layout2"
    /\ vbox = 0
    /\ \E p \in 2 .. Len(parts) : \E t \in placedNames(p) :
         /\ parts[p] = 2
         /\ inames[t].layoutPos = 0
         /\ ~At(staves, firstSysStaffOfPart(p) + 1).show
         /\ inames[t].y = halves(2 * top(firstShownOf(p).bbox) + firstShownOf(p).bbox.h
                                  + 2 * inames[t].offsetY)
         /\ firstShownOf(p).bbox.h > 0

-----------------------------------------------------------------------------
(* add followed by remove, and the divider slots *)

\* C25: remove(el) right after add(el), el of a kind add attaches to the
\* system, leaves the spanner-segment list and both divider slots as they
\* were before add(el), and the staff name lists and the bracket set with
\* them: no element stays attached after it has been removed.
C25_Original ==
    [][(lastOp.op = "addElement" /\ lastOp'.op = "removeElement" /\ lastOp'.el = lastOp.el
          /\ addHandles(elements[lastOp.el].kind)) =>
          /\ spannerSegments' = lastOp.before.spannerSegments
          /\ systemDividerLeft' = lastOp.before.systemDividerLeft
          /\ systemDividerRight' = lastOp.before.systemDividerRight
          /\ staves' = staves
          /\ brackets' = brackets]_vars

\* C29: remove(divider) clears the slot that holds the divider and no other,
\* and neither slot when the divider is in none; add(divider) stores it in
\* the left slot exactly when its type is LEFT, in the right slot otherwise,
\* and leaves the other slot alone.
C29_Original ==
    [][LET e == lastOp'.el
       IN /\ (lastOp'.op = "removeElement" /\ elements[e].kind = "SYSTEM_DIVIDER") =>
                /\ systemDividerLeft' = IF e = systemDividerLeft THEN 0 ELSE systemDividerLeft
                /\ systemDividerRight' = IF e = systemDividerRight THEN 0 ELSE systemDividerRight
          /\ (lastOp'.op = "addElement" /\ elements[e].kind = "SYSTEM_DIVIDER") =>
                IF elements[e].dividerType = "LEFT"
                THEN systemDividerLeft' = e /\ systemDividerRight' = systemDividerRight
                ELSE systemDividerRight' = e /\ systemDividerLeft' = systemDividerLeft]_vars

-----------------------------------------------------------------------------
(* The staff record that holds a name *)

\* the places (staff index, position) of name t in the name lists
namePlaces(t) ==
    {<<i, k>> \in Idx(staves) \X (1 .. MaxNames + 1) :
        k <= Len(At(staves, i).instrumentNames) /\ At(staves, i).instrumentNames[k] = t}

\* C26: every name attached to the system is in exactly one name list, the
\* list of the staff record its back-reference points to, which is the record
\* at index track / VOICES; and a name that has been removed is in no list.
C26_Original ==
    \A t \in DOMAIN inames :
        IF inames[t].sysStaff # 0
        THEN /\ Cardinality(namePlaces(t)) = 1
             /\ \A pl \in namePlaces(t) :
                  /\ At(staves, pl[1]).id = inames[t].sysStaff
                  /\ pl[1] = inames[t].track \div VOICES
        ELSE namePlaces(t) = {}

-----------------------------------------------------------------------------
(* Hidden staves under a pointer position *)

\* every hidden staff has the empty box layout2 and layoutSystem give it
hiddenBoxesEmpty ==
    \A i \in Idx(staves) : ~IsVisible(staves, i) => At(staves, i).bbox = RectF

\* C28: once every hidden staff has an empty box, y2staff(y) returns for every
\* y either -1 or the index of a staff that is visible.
C28_Original ==
    (lastOp.op = "y2staff" /\ passes >= 1 /\ hiddenBoxesEmpty) =>
        (lastOp.result = -1 \/ IsVisible(staves, lastOp.result))

-----------------------------------------------------------------------------
(* The names setInstrumentNames leaves on a shown top staff *)

\* C30: after setInstrumentNames with names not suppressed, the staff record of
\* every shown top staff holds exactly as many names as the part has names of
\* the requested kind, the i-th with the text and the anchor position of the
\* i-th part name and with name type LONG if longName and SHORT otherwise,
\* also when the record held names of the other kind before.
C30_Original ==
    (lastOp.op = "setInstrumentNames" /\ ~namesSuppressed /\ vbox = 0) =>
        \A p \in 1 .. Len(parts) :
            LET i == firstSysStaffOfPart(p)
                names == At(staves, i).instrumentNames
            IN At(staffs, i).show =>
                 /\ Len(names) = Len(lastOp.partNames[p])
                 /\ \A k \in 1 .. Len(names) :
                      /\ IF k <= Len(lastOp.partNames[p])
                         THEN /\ inames[names[k]].text = lastOp.partNames[p][k].name
                              /\ inames[names[k]].layoutPos = lastOp.partNames[p][k].pos
                         ELSE TRUE
                      /\ inames[names[k]].nameType = IF lastOp.longName THEN "LONG" ELSE "SHORT"

=============================================================================
